---- MODULE Spec2Model ----
(***************************************************************************)
(* Dream Purple theme: the accessibility validator (AccessibilityValidator), *)
(* the contrast helpers of the theme test suite (ThemeTestSuite) and the    *)
(* compatibility tester (ThemeCompatibilityTester) and the runner of all    *)
(* suites (ComprehensiveTestRunner).                                        *)
(*                                                                         *)
(* JavaScript numbers are modelled as decimal fixed-point integers with six *)
(* fractional digits (Scale), every operation truncating toward zero, plus  *)
(* the two non-numbers the code can produce, NaN and undefined.  Strings    *)
(* are sequences of one-character strings.                                  *)
(***************************************************************************)
EXTENDS Integers, Sequences, FiniteSets, TLC

VARIABLES themeColors, violations, warnings, passes, suiteResults, calls, call,
          env, tester, runner

vars == <<themeColors, violations, warnings, passes, suiteResults, calls, call,
          env, tester, runner>>

\* the validator, the contrast test of the suite and the observed engine call
validatorVars == <<themeColors, violations, warnings, passes, suiteResults, calls, call>>

----------------------------------------------------------------------------
(* JavaScript values *)

Scale == 1000 * 1000

Num(n) == [kind |-> "number", v |-> n]
NaN == [kind |-> "NaN", v |-> 0]
Undefined == [kind |-> "undefined", v |-> 0]

IsNum(x) == x.kind = "number"

\* a < b of JavaScript: false as soon as one side is NaN or undefined
JsLt(a, b) == IsNum(a) /\ IsNum(b) /\ a.v < b.v

\* a >= b of JavaScript: false as soon as one side is NaN or undefined
JsGe(a, b) == IsNum(a) /\ IsNum(b) /\ a.v >= b.v

\* a <= b of JavaScript
JsLe(a, b) == IsNum(a) /\ IsNum(b) /\ a.v <= b.v

\* floor(a * b / Scale) for 0 <= a, b < 2000 * 1000, without leaving 32 bits
MulFix(a, b) ==
    LET ah == a \div 1000
        al == a % 1000
        bh == b \div 1000
        bl == b % 1000
    IN  ah * bh + ((ah * bl + al * bh + ((al * bl) \div 1000)) \div 1000)

RECURSIVE FracDigits(_, _, _)
\* the first k decimal digits of r / b, for 0 <= r < b
FracDigits(r, b, k) ==
    IF k = 0 THEN 0
    ELSE LET t == r * 10
             q == t \div b
             p == FracDigits(t % b, b, k - 1)
         IN  q * (10 ^ (k - 1)) + p

\* floor(a * Scale / b), by long division
DivFix(a, b) == (a \div b) * Scale + FracDigits(a % b, b, 6)

JsMul(x, y) == IF IsNum(x) /\ IsNum(y) THEN Num(MulFix(x.v, y.v)) ELSE NaN
JsAdd(x, y) == IF IsNum(x) /\ IsNum(y) THEN Num(x.v + y.v) ELSE NaN
JsDiv(x, y) == IF IsNum(x) /\ IsNum(y) THEN Num(DivFix(x.v, y.v)) ELSE NaN

\* Math.max and Math.min: NaN when either argument is NaN
MathMax(x, y) == IF IsNum(x) /\ IsNum(y) THEN (IF x.v >= y.v THEN x ELSE y) ELSE NaN
MathMin(x, y) == IF IsNum(x) /\ IsNum(y) THEN (IF x.v <= y.v THEN x ELSE y) ELSE NaN

\* y^5 in fixed point
Pow5(y) == MulFix(MulFix(MulFix(y, y), MulFix(y, y)), y)

RECURSIVE Root5Search(_, _, _)
\* the greatest y in lo..hi with Pow5(y) <= t  (Pow5(lo) <= t is given)
Root5Search(t, lo, hi) ==
    IF lo >= hi THEN lo
    ELSE LET mid == (lo + hi + 1) \div 2
         IN  IF Pow5(mid) <= t THEN Root5Search(t, mid, hi)
                                ELSE Root5Search(t, lo, mid - 1)

\* Math.pow(x, 2.4) for 0 <= x <= 1:  x^2.4 = x^2 * (x^2)^(1/5)
Pow24(x) ==
    LET x2 == MulFix(x, x)
    IN  MulFix(x2, Root5Search(x2, 0, Scale))

----------------------------------------------------------------------------
(* Strings and parseInt(s, 16) *)

\* the value of a hexadecimal digit; every other character has none
HexValue ==
    ("0" :> 0) @@ ("1" :> 1) @@ ("2" :> 2) @@ ("3" :> 3) @@ ("4" :> 4) @@
    ("5" :> 5) @@ ("6" :> 6) @@ ("7" :> 7) @@ ("8" :> 8) @@ ("9" :> 9) @@
    ("a" :> 10) @@ ("b" :> 11) @@ ("c" :> 12) @@ ("d" :> 13) @@ ("e" :> 14) @@
    ("f" :> 15) @@ ("A" :> 10) @@ ("B" :> 11) @@ ("C" :> 12) @@ ("D" :> 13) @@
    ("E" :> 14) @@ ("F" :> 15)

IsHexDigit(ch) == ch \in DOMAIN HexValue

RECURSIVE HexPrefixValue(_, _)
\* the value of the longest prefix of s made of hexadecimal digits, after acc
HexPrefixValue(s, acc) ==
    IF s = <<>> \/ ~IsHexDigit(Head(s)) THEN acc
    ELSE HexPrefixValue(Tail(s), acc * 16 + HexValue[Head(s)])

\* parseInt(s, 16): the longest hexadecimal prefix, NaN when it is empty
\* (an integer, not scaled)
ParseInt16(s) ==
    IF s = <<>> \/ ~IsHexDigit(Head(s)) THEN NaN
    ELSE Num(HexPrefixValue(s, 0))

\* hex.substr(start, len), start counted from 0
Substr(s, start, len) == SubSeq(s, start + 1, start + len)

\* hex.replace(/^#/, '')
StripHash(s) == IF s # <<>> /\ Head(s) = "#" THEN Tail(s) ELSE s

\* the value hexToRgb returns when it returns null
Null == [isNull |-> TRUE, r |-> NaN, g |-> NaN, b |-> NaN, a |-> NaN]

Rgb(r, g, b, a) == [isNull |-> FALSE, r |-> r, g |-> g, b |-> b, a |-> a]

\* parseInt(...) / 255 of the alpha channel
AlphaOf(n) == IF IsNum(n) THEN Num(DivFix(n.v, 255)) ELSE NaN

\* AccessibilityValidator.hexToRgb
ValidatorHexToRgb(hexIn) ==
    LET hex == StripHash(hexIn)
    IN  IF Len(hex) = 8 THEN
            Rgb(ParseInt16(Substr(hex, 0, 2)), ParseInt16(Substr(hex, 2, 2)),
                ParseInt16(Substr(hex, 4, 2)), AlphaOf(ParseInt16(Substr(hex, 6, 2))))
        ELSE IF Len(hex) = 6 THEN
            Rgb(ParseInt16(Substr(hex, 0, 2)), ParseInt16(Substr(hex, 2, 2)),
                ParseInt16(Substr(hex, 4, 2)), Num(Scale))
        ELSE IF Len(hex) = 3 THEN
            Rgb(ParseInt16(<<hex[1], hex[1]>>), ParseInt16(<<hex[2], hex[2]>>),
                ParseInt16(<<hex[3], hex[3]>>), Num(Scale))
        ELSE Null

\* /^#?([a-f\d]{2})([a-f\d]{2})([a-f\d]{2})$/i.exec(hex) succeeds
SuiteHexMatches(hexIn) ==
    LET hex == StripHash(hexIn)
    IN  Len(hex) = 6 /\ \A i \in 1..6 : IsHexDigit(hex[i])

\* hexToRgb of the test suite (its result has no alpha channel)
SuiteHexToRgb(hexIn) ==
    LET hex == StripHash(hexIn)
    IN  IF SuiteHexMatches(hexIn) THEN
            Rgb(ParseInt16(Substr(hex, 0, 2)), ParseInt16(Substr(hex, 2, 2)),
                ParseInt16(Substr(hex, 4, 2)), Undefined)
        ELSE Null

----------------------------------------------------------------------------
(* Relative luminance and contrast ratio *)

\* c = c / 255; c <= 0.03928 ? c / 12.92 : Math.pow((c + 0.055) / 1.055, 2.4)
Linearize(c) ==
    LET s == DivFix(c, 255)
    IN  IF s <= 39280 THEN DivFix(s, 12920000)
        ELSE Pow24(DivFix(s + 55000, 1055000))

\* the map callback, tabulated over the channel values parseInt can give
LinearTable == [c \in 0..255 |-> Linearize(c)]

ChannelLinear(c) == IF IsNum(c) THEN Num(LinearTable[c.v]) ELSE NaN

\* getRelativeLuminance with the green weight mistyped (0.7512 for 0.7152)
GetRelativeLuminanceGreenWeight(rgb) ==
    JsAdd(JsAdd(JsMul(Num(212600), ChannelLinear(rgb.r)),
                JsMul(Num(751200), ChannelLinear(rgb.g))),
          JsMul(Num(72200), ChannelLinear(rgb.b)))

\* AccessibilityValidator.getRelativeLuminance
GetRelativeLuminance(rgb) ==
    JsAdd(JsAdd(JsMul(Num(212600), ChannelLinear(rgb.r)),
                JsMul(Num(715200), ChannelLinear(rgb.g))),
          JsMul(Num(72200), ChannelLinear(rgb.b)))

\* getRelativeLuminance with the blue weight mistyped (0.0772 for 0.0722)
SuiteGetRelativeLuminanceBlueWeight(rgb) ==
    JsAdd(JsAdd(JsMul(Num(212600), ChannelLinear(rgb.r)),
                JsMul(Num(715200), ChannelLinear(rgb.g))),
          JsMul(Num(77200), ChannelLinear(rgb.b)))

\* getRelativeLuminance of the test suite
SuiteGetRelativeLuminance(rgb) ==
    JsAdd(JsAdd(JsMul(Num(212600), ChannelLinear(rgb.r)),
                JsMul(Num(715200), ChannelLinear(rgb.g))),
          JsMul(Num(72200), ChannelLinear(rgb.b)))

\* calculateContrastRatio dividing in argument order, without Math.max and Math.min
CalculateContrastRatioUnordered(color1, color2) ==
    LET rgb1 == ValidatorHexToRgb(color1)
        rgb2 == ValidatorHexToRgb(color2)
    IN  IF rgb1.isNull \/ rgb2.isNull THEN Num(0)
        ELSE JsDiv(JsAdd(GetRelativeLuminance(rgb1), Num(50000)),
                   JsAdd(GetRelativeLuminance(rgb2), Num(50000)))

\* calculateContrastRatio with the offset of the numerator mistyped (0.5 for 0.05)
CalculateContrastRatioOffset(color1, color2) ==
    LET rgb1 == ValidatorHexToRgb(color1)
        rgb2 == ValidatorHexToRgb(color2)
    IN  IF rgb1.isNull \/ rgb2.isNull THEN Num(0)
        ELSE LET lum1 == GetRelativeLuminance(rgb1)
                 lum2 == GetRelativeLuminance(rgb2)
                 brightest == MathMax(lum1, lum2)
                 darkest == MathMin(lum1, lum2)
             IN  JsDiv(JsAdd(brightest, Num(500000)), JsAdd(darkest, Num(50000)))

\* calculateContrastRatio with numerator and denominator exchanged
CalculateContrastRatioInverted(color1, color2) ==
    LET rgb1 == ValidatorHexToRgb(color1)
        rgb2 == ValidatorHexToRgb(color2)
    IN  IF rgb1.isNull \/ rgb2.isNull THEN Num(0)
        ELSE LET lum1 == GetRelativeLuminance(rgb1)
                 lum2 == GetRelativeLuminance(rgb2)
                 brightest == MathMax(lum1, lum2)
                 darkest == MathMin(lum1, lum2)
             IN  JsDiv(JsAdd(darkest, Num(50000)), JsAdd(brightest, Num(50000)))

\* AccessibilityValidator.calculateContrastRatio
CalculateContrastRatio(color1, color2) ==
    LET rgb1 == ValidatorHexToRgb(color1)
        rgb2 == ValidatorHexToRgb(color2)
    IN  IF rgb1.isNull \/ rgb2.isNull THEN Num(0)
        ELSE LET lum1 == GetRelativeLuminance(rgb1)
                 lum2 == GetRelativeLuminance(rgb2)
                 brightest == MathMax(lum1, lum2)
                 darkest == MathMin(lum1, lum2)
             IN  JsDiv(JsAdd(brightest, Num(50000)), JsAdd(darkest, Num(50000)))

\* getContrastRatio dividing in argument order, without Math.max and Math.min
GetContrastRatioUnordered(color1, color2) ==
    LET rgb1 == SuiteHexToRgb(color1)
        rgb2 == SuiteHexToRgb(color2)
    IN  IF rgb1.isNull \/ rgb2.isNull THEN Num(0)
        ELSE JsDiv(JsAdd(SuiteGetRelativeLuminance(rgb1), Num(50000)),
                   JsAdd(SuiteGetRelativeLuminance(rgb2), Num(50000)))

\* getContrastRatio of the test suite
GetContrastRatio(color1, color2) ==
    LET rgb1 == SuiteHexToRgb(color1)
        rgb2 == SuiteHexToRgb(color2)
    IN  IF rgb1.isNull \/ rgb2.isNull THEN Num(0)
        ELSE LET lum1 == SuiteGetRelativeLuminance(rgb1)
                 lum2 == SuiteGetRelativeLuminance(rgb2)
                 brightest == MathMax(lum1, lum2)
                 darkest == MathMin(lum1, lum2)
             IN  JsDiv(JsAdd(brightest, Num(50000)), JsAdd(darkest, Num(50000)))

----------------------------------------------------------------------------
(* WCAG thresholds and the classification of a ratio *)

WCAG_STANDARDS ==
    [AA  |-> ("normalText" :> 4500000) @@ ("largeText" :> 3000000) @@
             ("uiComponents" :> 3000000) @@ ("graphicalObjects" :> 3000000),
     AAA |-> ("normalText" :> 7000000) @@ ("largeText" :> 4500000) @@
             ("uiComponents" :> 4500000) @@ ("graphicalObjects" :> 4500000)]

\* WCAG_STANDARDS[level][type]: undefined for a type the table does not hold
Required(level, type) ==
    IF type \in DOMAIN WCAG_STANDARDS[level]
    THEN Num(WCAG_STANDARDS[level][type]) ELSE Undefined

\* the classification with the thresholds made exclusive (<= for <)
ContrastOutcomeExclusive(ratio, type) ==
    IF JsLe(ratio, Required("AA", type)) THEN "violations"
    ELSE IF JsLe(ratio, Required("AAA", type)) THEN "warnings"
    ELSE "passes"

\* the classification without the AAA branch
ContrastOutcomeAAOnly(ratio, type) ==
    IF JsLt(ratio, Required("AA", type)) THEN "violations" ELSE "passes"

\* the list validateContrastPair pushes a computed ratio's record to
ContrastOutcome(ratio, type) ==
    IF JsLt(ratio, Required("AA", type)) THEN "violations"
    ELSE IF JsLt(ratio, Required("AAA", type)) THEN "warnings"
    ELSE "passes"

\* TEST_CONFIG.accessibilityTests.contrastRatios
SuiteContrastRatios ==
    ("normalText" :> 4500000) @@ ("largeText" :> 3000000) @@
    ("uiComponents" :> 3000000)

SuiteRequired(type) ==
    IF type \in DOMAIN SuiteContrastRatios
    THEN Num(SuiteContrastRatios[type]) ELSE Undefined

\* ratio.toFixed(2), kept as the number the string denotes
ToFixed2(x) ==
    IF IsNum(x) THEN Num(((x.v + 5000) \div 10000) * 10000) ELSE NaN

\* const passed = ratio >= required, in the loop of testContrastRatios
SuitePassed(ratio, type) == JsGe(ratio, SuiteRequired(type))

\* the body of the loop of testContrastRatios: the entry pushed to results
SuiteContrastEntry(pair) ==
    LET ratio == GetContrastRatio(pair.bg, pair.fg)
    IN  [background |-> pair.bg, foreground |-> pair.fg, ratio |-> ToFixed2(ratio),
         required |-> SuiteRequired(pair.type), passed |-> SuitePassed(ratio, pair.type)]

----------------------------------------------------------------------------
(* Bounds of the model *)

\* how many of ChannelList's channel values the engine's inputs are built from
MaxChannelSamples == 4

\* how many operations one validator object is asked to perform
MaxCalls == 2

\* how many methods of one compatibility tester a caller calls
MaxTesterCalls == 2

----------------------------------------------------------------------------
(* Colour strings *)

Hash(s) == <<"#">> \o s

C_1a0d26 == <<"#", "1", "a", "0", "d", "2", "6">>
C_f4f1f4 == <<"#", "f", "4", "f", "1", "f", "4">>
C_4a2c5a == <<"#", "4", "a", "2", "c", "5", "a">>
C_2d1b3d == <<"#", "2", "d", "1", "b", "3", "d">>
C_ff6b35 == <<"#", "f", "f", "6", "b", "3", "5">>
C_8b7a9b == <<"#", "8", "b", "7", "a", "9", "b">>
C_c792ea == <<"#", "c", "7", "9", "2", "e", "a">>

\* a red whose contrast against #1a0d26 lies between 4.495 and 4.5
C_e04444 == <<"#", "e", "0", "4", "4", "4", "4">>

Black == <<"#", "0", "0", "0", "0", "0", "0">>
White == <<"#", "F", "F", "F", "F", "F", "F">>

\* "not-a-color"
NotAColor == <<"n", "o", "t", "-", "a", "-", "c", "o", "l", "o", "r">>

\* the fallback colours of loadThemeColors
DefaultThemeColors ==
    ("editor.background" :> C_1a0d26) @@
    ("editor.foreground" :> C_f4f1f4) @@
    ("editor.selectionBackground" :> C_4a2c5a) @@
    ("editor.lineHighlightBackground" :> C_2d1b3d) @@
    ("editorCursor.foreground" :> C_ff6b35) @@
    ("activityBar.background" :> C_1a0d26) @@
    ("activityBar.foreground" :> C_8b7a9b) @@
    ("activityBar.activeForeground" :> C_ff6b35) @@
    ("sideBar.background" :> C_2d1b3d) @@
    ("sideBar.foreground" :> C_f4f1f4) @@
    ("statusBar.background" :> C_1a0d26) @@
    ("statusBar.foreground" :> C_f4f1f4) @@
    ("tab.activeBackground" :> C_2d1b3d) @@
    ("tab.activeForeground" :> C_f4f1f4) @@
    ("tab.inactiveBackground" :> C_1a0d26) @@
    ("tab.inactiveForeground" :> C_8b7a9b) @@
    ("terminal.background" :> C_1a0d26) @@
    ("terminal.foreground" :> C_f4f1f4)

\* colour values a theme file may give a key (extractColors copies them as they are)
ThemeValues ==
    {C_1a0d26, C_f4f1f4, C_2d1b3d, C_8b7a9b, C_ff6b35, C_e04444,
     <<"#", "f", "f", "f">>, <<"1", "a", "0", "d", "2", "6", "8", "0">>,
     <<>>, NotAColor, <<"#", "z", "z", "z", "z", "z", "z">>,
     <<"#", "1", "2", "3", "4", "5">>}

\* the keys whose value the modelled theme files vary
ThemeKeysVaried ==
    {"editor.background", "editor.foreground", "activityBar.foreground",
     "tab.inactiveForeground"}

\* themeColors after construction: the fallback, or what a theme file defines
ThemeInputs ==
    {DefaultThemeColors}
    \cup {[DefaultThemeColors EXCEPT ![k] = v] : k \in ThemeKeysVaried, v \in ThemeValues}
    \cup {[k \in (DOMAIN DefaultThemeColors) \ {gone} |-> DefaultThemeColors[k]] :
            gone \in ThemeKeysVaried}

----------------------------------------------------------------------------
(* AccessibilityValidator: validateContrastPair and validateContrastRatios *)

Pair(bg, fg, type, critical) == [bg |-> bg, fg |-> fg, type |-> type, critical |-> critical]

\* criticalPairs of validateContrastRatios, in order
CriticalPairs ==
    << Pair("editor.background", "editor.foreground", "normalText", TRUE),
       Pair("editor.selectionBackground", "editor.foreground", "normalText", TRUE),
       Pair("activityBar.background", "activityBar.foreground", "uiComponents", TRUE),
       Pair("activityBar.background", "activityBar.activeForeground", "uiComponents", TRUE),
       Pair("sideBar.background", "sideBar.foreground", "normalText", TRUE),
       Pair("statusBar.background", "statusBar.foreground", "normalText", TRUE),
       Pair("tab.activeBackground", "tab.activeForeground", "normalText", TRUE),
       Pair("tab.inactiveBackground", "tab.inactiveForeground", "normalText", FALSE),
       Pair("terminal.background", "terminal.foreground", "normalText", TRUE) >>

\* this.themeColors[key] is undefined or the empty string: !color holds
Falsy(colors, key) == key \notin DOMAIN colors \/ colors[key] = <<>>

\* the record validateContrastPair pushes for a computed ratio
ContrastRecord(list, pair, bgColor, fgColor, ratio) ==
    LET result == [background |-> pair.bg, foreground |-> pair.fg,
                   backgroundValue |-> bgColor, foregroundValue |-> fgColor,
                   ratio |-> ratio, pairType |-> pair.type, critical |-> pair.critical,
                   shown |-> ToFixed2(ratio)]
    IN  CASE list = "violations" ->
                 result @@ [type |-> "contrast-ratio",
                            severity |-> IF pair.critical THEN "high" ELSE "medium"]
          [] list = "warnings" ->
                 result @@ [type |-> "contrast-ratio-aaa", severity |-> "low"]
          [] OTHER ->
                 result @@ [type |-> "contrast-ratio"]

\* validateContrastPair deciding on the ratio as displayed, ratio.toFixed(2)
ValidateContrastPairRounded(colors, st, pair) ==
    IF Falsy(colors, pair.bg) \/ Falsy(colors, pair.fg) THEN
        [st EXCEPT !.warnings =
            Append(@, [type |-> "missing-color", severity |-> "medium"])]
    ELSE
        LET bgColor == colors[pair.bg]
            fgColor == colors[pair.fg]
            ratio == CalculateContrastRatio(bgColor, fgColor)
            list == ContrastOutcome(ToFixed2(ratio), pair.type)
        IN  [st EXCEPT ![list] = Append(@, ContrastRecord(list, pair, bgColor, fgColor, ratio))]

\* validateContrastPair on the lists st = [violations, warnings, passes]
ValidateContrastPair(colors, st, pair) ==
    IF Falsy(colors, pair.bg) \/ Falsy(colors, pair.fg) THEN
        [st EXCEPT !.warnings =
            Append(@, [type |-> "missing-color", severity |-> "medium"])]
    ELSE
        LET bgColor == colors[pair.bg]
            fgColor == colors[pair.fg]
            ratio == CalculateContrastRatio(bgColor, fgColor)
            list == ContrastOutcome(ratio, pair.type)
        IN  [st EXCEPT ![list] = Append(@, ContrastRecord(list, pair, bgColor, fgColor, ratio))]

RECURSIVE ValidatePairsFromAborting(_, _, _, _)
\* the for loop leaving at the first pair that has a missing colour
ValidatePairsFromAborting(colors, st, pairs, i) ==
    IF i > Len(pairs) THEN st
    ELSE LET next == ValidateContrastPair(colors, st, pairs[i])
         IN  IF Falsy(colors, pairs[i].bg) \/ Falsy(colors, pairs[i].fg) THEN next
             ELSE ValidatePairsFromAborting(colors, next, pairs, i + 1)

RECURSIVE ValidatePairsFrom(_, _, _, _)
\* the for loop of validateContrastRatios from the i-th pair on
ValidatePairsFrom(colors, st, pairs, i) ==
    IF i > Len(pairs) THEN st
    ELSE ValidatePairsFrom(colors, ValidateContrastPair(colors, st, pairs[i]), pairs, i + 1)

Lists == [violations |-> violations, warnings |-> warnings, passes |-> passes]

SetLists(st) ==
    /\ violations' = st.violations
    /\ warnings' = st.warnings
    /\ passes' = st.passes

\* pairs a caller of the exported class hands to validateContrastPair
PairInputs ==
    { CriticalPairs[1], CriticalPairs[3], CriticalPairs[8],
      Pair("editor.background", "editor.foreground", "graphicalObjects", FALSE),
      Pair("editor.background", "editor.foreground", "headingText", TRUE),
      Pair("editor.background", "editorGutter.foreground", "normalText", TRUE) }

\* validator.validateContrastPair(pair)
ValidateContrastPairCall(pair) ==
    /\ calls < MaxCalls
    /\ calls' = calls + 1
    /\ SetLists(ValidateContrastPair(themeColors, Lists, pair))
    /\ UNCHANGED <<themeColors, suiteResults, call, env, tester, runner>>

\* validator.validateContrastRatios()
ValidateContrastRatios ==
    /\ calls < MaxCalls
    /\ calls' = calls + 1
    /\ SetLists(ValidatePairsFrom(themeColors, Lists, CriticalPairs, 1))
    /\ UNCHANGED <<themeColors, suiteResults, call, env, tester, runner>>

----------------------------------------------------------------------------
(* AccessibilityValidator: colour-blindness compatibility *)

\* a / 0 of JavaScript for a > 0
Infinity == [kind |-> "Infinity", v |-> 0]

\* COLOR_BLINDNESS_MATRICES, the coefficients in thousandths
COLOR_BLINDNESS_MATRICES ==
    [protanopia   |-> << <<567, 433, 0>>, <<558, 442, 0>>, <<0, 242, 758>> >>,
     deuteranopia |-> << <<625, 375, 0>>, <<700, 300, 0>>, <<0, 300, 700>> >>,
     tritanopia   |-> << <<950, 50, 0>>, <<0, 433, 567>>, <<0, 475, 525>> >>]

\* Object.keys(COLOR_BLINDNESS_MATRICES), in insertion order
DeficiencyTypes == <<"protanopia", "deuteranopia", "tritanopia">>

LowerHexDigits ==
    <<"0", "1", "2", "3", "4", "5", "6", "7", "8", "9", "a", "b", "c", "d", "e", "f">>

RECURSIVE ToString16(_)
\* n.toString(16) for an integer n >= 0
ToString16(n) ==
    IF n < 16 THEN <<LowerHexDigits[n + 1]>>
    ELSE Append(ToString16(n \div 16), LowerHexDigits[(n % 16) + 1])

\* s.padStart(2, '0')
PadStart2(s) == IF Len(s) < 2 THEN <<"0">> \o s ELSE s

\* NaN.toString(16).padStart(2, '0')
NaNText == <<"N", "a", "N">>

\* Math.round(r * row[0] + g * row[1] + b * row[2]) for channels that are numbers,
\* in exact decimal arithmetic (a sum of doubles that should end in .5 can fall
\* on the other side and give a channel one lower)
RoundedRow(rgb, row) ==
    (rgb.r.v * row[1] + rgb.g.v * row[2] + rgb.b.v * row[3] + 500) \div 1000

\* simulateColorBlindness: a NaN channel makes every product sum NaN
SimulateColorBlindness(hexColor, matrix) ==
    LET rgb == ValidatorHexToRgb(hexColor)
    IN  IF rgb.isNull THEN hexColor
        ELSE IF ~(IsNum(rgb.r) /\ IsNum(rgb.g) /\ IsNum(rgb.b)) THEN
            <<"#">> \o NaNText \o NaNText \o NaNText
        ELSE <<"#">> \o PadStart2(ToString16(RoundedRow(rgb, matrix[1])))
                    \o PadStart2(ToString16(RoundedRow(rgb, matrix[2])))
                    \o PadStart2(ToString16(RoundedRow(rgb, matrix[3])))

\* colour distances are kept with two decimals, in units of 1 / DistScale
DistScale == 10 * 10

RECURSIVE SqrtSearch(_, _, _)
\* the greatest y in lo..hi with y * y <= t
SqrtSearch(t, lo, hi) ==
    IF lo >= hi THEN lo
    ELSE LET mid == (lo + hi + 1) \div 2
         IN  IF mid * mid <= t THEN SqrtSearch(t, mid, hi)
                               ELSE SqrtSearch(t, lo, mid - 1)

\* Math.sqrt(n) for an integer 0 <= n <= 3 * 255 * 255, in units of 1 / DistScale
MathSqrt(n) == SqrtSearch(n * DistScale * DistScale, 0, 45000)

\* calculateColorDifference
CalculateColorDifference(color1, color2) ==
    LET rgb1 == ValidatorHexToRgb(color1)
        rgb2 == ValidatorHexToRgb(color2)
    IN  IF rgb1.isNull \/ rgb2.isNull THEN Num(0)
        ELSE IF \E c \in {rgb1.r, rgb1.g, rgb1.b, rgb2.r, rgb2.g, rgb2.b} : ~IsNum(c)
            THEN NaN
        ELSE LET deltaR == rgb1.r.v - rgb2.r.v
                 deltaG == rgb1.g.v - rgb2.g.v
                 deltaB == rgb1.b.v - rgb2.b.v
             IN  Num(MathSqrt(deltaR * deltaR + deltaG * deltaG + deltaB * deltaB))

\* simulatedDiff / originalDiff of JavaScript: 0 / 0 is NaN, a / 0 is Infinity
DistanceQuotient(simulatedDiff, originalDiff) ==
    IF ~IsNum(simulatedDiff) \/ ~IsNum(originalDiff) THEN NaN
    ELSE IF originalDiff.v = 0 THEN (IF simulatedDiff.v = 0 THEN NaN ELSE Infinity)
    ELSE Num(DivFix(simulatedDiff.v, originalDiff.v))

\* reductionRatio of validateColorBlindnessType for one pair
ReductionRatio(type, color1, color2) ==
    LET matrix == COLOR_BLINDNESS_MATRICES[type]
        simulated1 == SimulateColorBlindness(color1, matrix)
        simulated2 == SimulateColorBlindness(color2, matrix)
        originalDiff == CalculateColorDifference(color1, color2)
        simulatedDiff == CalculateColorDifference(simulated1, simulated2)
    IN  DistanceQuotient(simulatedDiff, originalDiff)

\* the body of the loop of validateColorBlindnessType for one pair
ValidateColorBlindnessPair(st, type, color1, color2) ==
    LET matrix == COLOR_BLINDNESS_MATRICES[type]
        reductionRatio == ReductionRatio(type, color1, color2)
    IN  IF JsLt(reductionRatio, Num(300000)) THEN
            [st EXCEPT !.warnings =
                Append(@, [type |-> "color-blindness", severity |-> "medium",
                           colorBlindnessType |-> type,
                           originalColors |-> <<color1, color2>>,
                           simulatedColors |-> <<SimulateColorBlindness(color1, matrix),
                                                 SimulateColorBlindness(color2, matrix)>>,
                           reductionRatio |-> reductionRatio])]
        ELSE
            [st EXCEPT !.passes =
                Append(@, [type |-> "color-blindness", colorBlindnessType |-> type])]

RECURSIVE ValidateColorBlindnessType(_, _, _, _)
\* validateColorBlindnessType(type, colorPairs) from the i-th pair on
ValidateColorBlindnessType(st, type, colorPairs, i) ==
    IF i > Len(colorPairs) THEN st
    ELSE ValidateColorBlindnessType(
             ValidateColorBlindnessPair(st, type, colorPairs[i][1], colorPairs[i][2]),
             type, colorPairs, i + 1)

C_64ffda == <<"#", "6", "4", "f", "f", "d", "a">>
C_ff8c42 == <<"#", "f", "f", "8", "c", "4", "2">>
C_ff6b6b == <<"#", "f", "f", "6", "b", "6", "b">>
C_82b1ff == <<"#", "8", "2", "b", "1", "f", "f">>

\* importantColorPairs of validateColorBlindnessCompatibility
ImportantColorPairs ==
    << <<C_ff6b35, C_c792ea>>, <<C_64ffda, C_ff8c42>>,
       <<C_ff6b6b, C_64ffda>>, <<C_82b1ff, C_c792ea>> >>

RECURSIVE ValidateColorBlindnessTypesFrom(_, _)
\* the loop of validateColorBlindnessCompatibility from the k-th type on
ValidateColorBlindnessTypesFrom(st, k) ==
    IF k > Len(DeficiencyTypes) THEN st
    ELSE ValidateColorBlindnessTypesFrom(
             ValidateColorBlindnessType(st, DeficiencyTypes[k], ImportantColorPairs, 1),
             k + 1)

Red == <<"#", "f", "f", "0", "0", "0", "0">>
Green == <<"#", "0", "0", "f", "f", "0", "0">>

\* lists of colour pairs a caller hands to validateColorBlindnessType
ColorPairsInputs ==
    { << <<C_ff6b35, C_8b7a9b>>, <<C_ff6b35, C_ff6b35>> >>,
      << <<Red, Green>>, <<NotAColor, C_ff6b35>> >> }

\* validator.validateColorBlindnessType(type, colorPairs)
ValidateColorBlindnessTypeCall(type, colorPairs) ==
    /\ calls < MaxCalls
    /\ calls' = calls + 1
    /\ SetLists(ValidateColorBlindnessType(Lists, type, colorPairs, 1))
    /\ UNCHANGED <<themeColors, suiteResults, call, env, tester, runner>>

\* validator.validateColorBlindnessCompatibility()
ValidateColorBlindnessCompatibility ==
    /\ calls < MaxCalls
    /\ calls' = calls + 1
    /\ SetLists(ValidateColorBlindnessTypesFrom(Lists, 1))
    /\ UNCHANGED <<themeColors, suiteResults, call, env, tester, runner>>

----------------------------------------------------------------------------
(* ThemeTestSuite.testContrastRatios *)

THEME_COLORS ==
    [primary |-> C_ff6b35, secondary |-> C_c792ea, background |-> C_1a0d26,
     surface |-> C_2d1b3d, text |-> C_f4f1f4, textSecondary |-> C_8b7a9b]

SuitePair(bg, fg, type) == [bg |-> bg, fg |-> fg, type |-> type]

\* testPairs of testContrastRatios
TestPairs ==
    << SuitePair(THEME_COLORS.background, THEME_COLORS.text, "normalText"),
       SuitePair(THEME_COLORS.surface, THEME_COLORS.text, "normalText"),
       SuitePair(THEME_COLORS.primary, THEME_COLORS.background, "normalText"),
       SuitePair(THEME_COLORS.secondary, THEME_COLORS.background, "normalText") >>

\* what testContrastRatios returns
TestContrastRatiosResult ==
    LET results == [i \in 1..Len(TestPairs) |-> SuiteContrastEntry(TestPairs[i])]
        failures == Cardinality({i \in 1..Len(TestPairs) : ~results[i].passed})
    IN  [passed |-> failures = 0, failures |-> failures, results |-> results]

\* suite.testContrastRatios(); testAccessibility keeps the result
TestContrastRatios ==
    /\ calls < MaxCalls
    /\ calls' = calls + 1
    /\ suiteResults' = <<TestContrastRatiosResult>>
    /\ UNCHANGED <<themeColors, violations, warnings, passes, call, env, tester, runner>>

----------------------------------------------------------------------------
(* ThemeCompatibilityTester *)

\* what the scripts read from outside: engines.vscode of package.json without
\* its ^ (<<>> when the file or the field is missing) and whether the theme
\* file defines semantic token colours
Environment(engine, semanticTokens) ==
    [engine |-> engine, semanticTokens |-> semanticTokens]

EngineInputs == {<<>>, <<1, 74, 0>>, <<1, 75>>, <<1, 80, 0>>, <<1, 91, 0>>}

EnvInputs == {Environment(e, t) : e \in EngineInputs, t \in BOOLEAN}

DefaultEnv == Environment(<<1, 74, 0>>, TRUE)

\* v1parts[i] || 0
VersionPart(parts, i) == IF i <= Len(parts) THEN parts[i] ELSE 0

RECURSIVE CompareVersionsFrom(_, _, _)
CompareVersionsFrom(v1parts, v2parts, i) ==
    IF i > Len(v1parts) /\ i > Len(v2parts) THEN 0
    ELSE IF VersionPart(v1parts, i) < VersionPart(v2parts, i) THEN -1
    ELSE IF VersionPart(v1parts, i) > VersionPart(v2parts, i) THEN 1
    ELSE CompareVersionsFrom(v1parts, v2parts, i + 1)

\* compareVersions of two versions given as their numeric parts
CompareVersions(version1, version2) == CompareVersionsFrom(version1, version2, 1)

\* features.filter(f => themeFeatures.includes(f)): a filter of a sequence
RECURSIVE FilterIn(_, _)
FilterIn(seq, allowed) ==
    IF seq = <<>> THEN <<>>
    ELSE IF Head(seq) \in allowed THEN <<Head(seq)>> \o FilterIn(Tail(seq), allowed)
    ELSE FilterIn(Tail(seq), allowed)

\* getVersionFeatures
GetVersionFeatures(version) ==
    <<"basic-theming", "workbench-colors", "token-colors">>
    \o (IF CompareVersions(version, <<1, 43, 0>>) >= 0
        THEN <<"semantic-highlighting">> ELSE <<>>)
    \o (IF CompareVersions(version, <<1, 60, 0>>) >= 0
        THEN <<"bracket-pair-colorization">> ELSE <<>>)
    \o (IF CompareVersions(version, <<1, 70, 0>>) >= 0
        THEN <<"terminal-tabs">> ELSE <<>>)

\* getThemeFeatures
GetThemeFeatures ==
    <<"basic-theming", "workbench-colors", "token-colors", "semantic-highlighting">>

Range(seq) == {seq[i] : i \in 1..Len(seq)}

\* vscodeVersions of testVSCodeVersionCompatibility
VscodeVersions ==
    << [version |-> <<1, 74, 0>>, status |-> "minimum", critical |-> TRUE],
       [version |-> <<1, 75, 0>>, status |-> "stable", critical |-> TRUE],
       [version |-> <<1, 80, 0>>, status |-> "current", critical |-> TRUE],
       [version |-> <<1, 85, 0>>, status |-> "latest", critical |-> FALSE],
       [version |-> <<1, 90, 0>>, status |-> "insider", critical |-> FALSE] >>

\* testVSCodeVersion
TestVSCodeVersion(e, vscode) ==
    LET features == GetVersionFeatures(vscode.version)
        below == IF e.engine # <<>> /\ CompareVersions(vscode.version, e.engine) < 0
                 THEN <<"Version below minimum requirement">> ELSE <<>>
        unsupported == FilterIn(GetThemeFeatures, Range(GetThemeFeatures) \ Range(features))
        issues == below \o unsupported
    IN  [version |-> vscode.version, compatible |-> issues = <<>>, issues |-> issues,
         supportedFeatures |-> FilterIn(features, Range(GetThemeFeatures))]

\* popularExtensions of the first method named testExtensionCompatibility
PopularExtensions ==
    << [name |-> "Bracket Pair Colorizer", id |-> "coenraads.bracket-pair-colorizer", critical |-> FALSE],
       [name |-> "GitLens", id |-> "eamodio.gitlens", critical |-> TRUE],
       [name |-> "ESLint", id |-> "dbaeumer.vscode-eslint", critical |-> TRUE],
       [name |-> "Prettier", id |-> "esbenp.prettier-vscode", critical |-> TRUE],
       [name |-> "Live Server", id |-> "ritwickdey.liveserver", critical |-> FALSE],
       [name |-> "Auto Rename Tag", id |-> "formulahendry.auto-rename-tag", critical |-> FALSE],
       [name |-> "Indent Rainbow", id |-> "oderwat.indent-rainbow", critical |-> FALSE],
       [name |-> "Color Highlight", id |-> "naumovs.color-highlight", critical |-> FALSE],
       [name |-> "Material Icon Theme", id |-> "pkief.material-icon-theme", critical |-> FALSE],
       [name |-> "Thunder Client", id |-> "rangav.vscode-thunder-client", critical |-> FALSE] >>

\* the check the switch of the second testExtensionCompatibility selects
CompatibilityCheck(id) ==
    CASE id = "coenraads.bracket-pair-colorizer" ->
             [compatible |-> TRUE, message |-> "Bracket pair colors supported"]
      [] id = "eamodio.gitlens" ->
             [compatible |-> TRUE, message |-> "Git decoration colors supported"]
      [] id = "oderwat.indent-rainbow" ->
             [compatible |-> TRUE, message |-> "Indent guide compatibility confirmed"]
      [] id = "naumovs.color-highlight" ->
             [compatible |-> TRUE, message |-> "No color highlight conflicts"]
      [] OTHER -> [compatible |-> TRUE, message |-> "No known conflicts"]

\* what a call that throws gives instead of a value
Thrown(message) == [thrown |-> TRUE, message |-> message]

IsThrown(x) == "thrown" \in DOMAIN x

\* the second method named testExtensionCompatibility, the one with a parameter
\* (undefined when the caller passes no argument): switch (extension.id) throws
\* a TypeError when extension is undefined
TestExtensionCompatibilityOfOne(extension) ==
    IF extension = Undefined THEN
        Thrown("Cannot read properties of undefined (reading 'id')")
    ELSE
        LET compatibilityChecks == <<CompatibilityCheck(extension.id)>>
            issues == IF compatibilityChecks[1].compatible THEN <<>>
                      ELSE <<compatibilityChecks[1].message>>
        IN  [name |-> extension.name, id |-> extension.id, compatible |-> issues = <<>>,
             issues |-> issues, checks |-> compatibilityChecks]

\* the methods the class body names testExtensionCompatibility, in the order
\* of their definitions: the loop over popularExtensions, then the check of one
TestExtensionCompatibilityDefinitions == <<"loop", "one">>

\* a class body that defines a method name twice keeps the later definition
TestExtensionCompatibilityBound ==
    TestExtensionCompatibilityDefinitions[Len(TestExtensionCompatibilityDefinitions)]

\* a new ThemeCompatibilityTester; pc is the place its asynchronous
\* runCompatibilityTests has reached, outcome how that run ended, ret what the
\* last call returned or threw, report what saveCompatibilityReport wrote
NewTester ==
    [testResults |-> [vscodeVersions |-> <<>>, extensions |-> <<>>, themeSwitching |-> <<>>,
                      semanticHighlighting |-> <<>>, performance |-> <<>>],
     issues |-> <<>>, warnings |-> <<>>,
     pc |-> "idle", outcome |-> "none", ret |-> [none |-> TRUE],
     report |-> [none |-> TRUE], calls |-> 0]

\* this.issues.push / this.warnings.push of a result that is not compatible
PushFinding(t, critical, finding) ==
    IF critical THEN [t EXCEPT !.issues = Append(@, finding)]
    ELSE [t EXCEPT !.warnings = Append(@, finding)]

RECURSIVE TestVSCodeVersionsFrom(_, _, _)
\* the loop of testVSCodeVersionCompatibility from the i-th version on
TestVSCodeVersionsFrom(t, e, i) ==
    IF i > Len(VscodeVersions) THEN t
    ELSE LET vscode == VscodeVersions[i]
             result == TestVSCodeVersion(e, vscode)
             pushed == [t EXCEPT !.testResults.vscodeVersions = Append(@, result)]
         IN  TestVSCodeVersionsFrom(
                 IF result.compatible THEN pushed
                 ELSE PushFinding(pushed, vscode.critical,
                                  [type |-> "vscode-compatibility", version |-> vscode.version]),
                 e, i + 1)

RECURSIVE TestExtensionsFrom(_, _)
\* the loop of the first method named testExtensionCompatibility, from the i-th
\* extension on (its call this.testExtensionCompatibility(extension) reaches the
\* second method)
TestExtensionsFrom(t, i) ==
    IF i > Len(PopularExtensions) THEN t
    ELSE LET extension == PopularExtensions[i]
             result == TestExtensionCompatibilityOfOne(extension)
             pushed == [t EXCEPT !.testResults.extensions = Append(@, result)]
         IN  TestExtensionsFrom(
                 IF result.compatible THEN pushed
                 ELSE PushFinding(pushed, extension.critical,
                                  [type |-> "extension-compatibility",
                                   extension |-> extension.name]),
                 i + 1)

\* this.testExtensionCompatibility(extension): the tester after the call and
\* what the call returned or threw
CallTestExtensionCompatibility(t, extension) ==
    IF TestExtensionCompatibilityBound = "loop"
    THEN [t |-> TestExtensionsFrom(t, 1), ret |-> Undefined]
    ELSE [t |-> t, ret |-> TestExtensionCompatibilityOfOne(extension)]

\* switchingScenarios of testThemeSwitchingScenarios
SwitchingScenarios ==
    << [from |-> "Default Dark+", to |-> "Dream Purple", scenario |-> "dark-to-dark"],
       [from |-> "Default Light+", to |-> "Dream Purple", scenario |-> "light-to-dark"],
       [from |-> "Monokai", to |-> "Dream Purple", scenario |-> "popular-to-dream"],
       [from |-> "Dream Purple", to |-> "Default Dark+", scenario |-> "dream-to-dark"],
       [from |-> "Dream Purple", to |-> "Default Light+", scenario |-> "dream-to-light"] >>

\* testThemeSwitching: its four checks all return { passed: true, issue: null }
TestThemeSwitching(scenario) ==
    LET checks == [k \in 1..4 |-> [passed |-> TRUE]]
        failed == {k \in 1..4 : ~checks[k].passed}
    IN  [from |-> scenario.from, to |-> scenario.to, scenario |-> scenario.scenario,
         smooth |-> failed = {}, checks |-> checks]

RECURSIVE TestThemeSwitchingFrom(_, _)
\* the loop of testThemeSwitchingScenarios from the i-th scenario on
TestThemeSwitchingFrom(t, i) ==
    IF i > Len(SwitchingScenarios) THEN t
    ELSE LET result == TestThemeSwitching(SwitchingScenarios[i])
             pushed == [t EXCEPT !.testResults.themeSwitching = Append(@, result)]
         IN  TestThemeSwitchingFrom(
                 IF result.smooth THEN pushed
                 ELSE PushFinding(pushed, FALSE,
                                  [type |-> "theme-switching",
                                   scenario |-> SwitchingScenarios[i].scenario]),
                 i + 1)

\* the languages of semanticTests
SemanticLanguages == <<"typescript", "javascript", "python", "java", "csharp">>

\* supportedLanguages of checkLanguageSemanticSupport
SupportedLanguages == {"typescript", "javascript", "python", "java", "csharp", "cpp"}

\* testSemanticHighlightingLanguage
TestSemanticHighlightingLanguage(e, language) ==
    LET issues == (IF e.semanticTokens THEN <<>> ELSE <<"No semantic token colors defined">>)
                  \o (IF language \in SupportedLanguages THEN <<>>
                      ELSE <<"Language may not support semantic highlighting">>)
    IN  [language |-> language, feature |-> "semantic-tokens", supported |-> issues = <<>>,
         issues |-> issues, semanticTokensAvailable |-> e.semanticTokens]

RECURSIVE TestSemanticHighlightingFrom(_, _, _)
\* the loop of testSemanticHighlighting from the i-th language on
TestSemanticHighlightingFrom(t, e, i) ==
    IF i > Len(SemanticLanguages) THEN t
    ELSE LET result == TestSemanticHighlightingLanguage(e, SemanticLanguages[i])
             pushed == [t EXCEPT !.testResults.semanticHighlighting = Append(@, result)]
         IN  TestSemanticHighlightingFrom(
                 IF result.supported THEN pushed
                 ELSE PushFinding(pushed, FALSE,
                                  [type |-> "semantic-highlighting",
                                   language |-> SemanticLanguages[i]]),
                 e, i + 1)

\* performanceTests, with the line Math.random() * range + least of each metric
PerformanceTests ==
    << [test |-> "theme-loading-time", threshold |-> 100, range |-> 80, least |-> 20],
       [test |-> "syntax-highlighting-performance", threshold |-> 50, range |-> 40, least |-> 10],
       [test |-> "memory-usage", threshold |-> 10, range |-> 8, least |-> 2],
       [test |-> "cpu-usage-during-switch", threshold |-> 5, range |-> 4, least |-> 1] >>

\* values of Math.random(), in thousandths: 0 <= Math.random() < 1
RandomSamples == {0, 999}

\* testPerformanceMetric for Math.random() = random / 1000; value is
\* Math.round(value * 100) / 100 in hundredths
TestPerformanceMetric(test, random) ==
    [test |-> test.test,
     value |-> (random * test.range + test.least * 1000 + 5) \div 10,
     threshold |-> test.threshold,
     withinThreshold |-> random * test.range + test.least * 1000 <= test.threshold * 1000]

RECURSIVE TestPerformanceFrom(_, _, _)
\* the loop of testPerformanceImpact from the i-th metric on
TestPerformanceFrom(t, randoms, i) ==
    IF i > Len(PerformanceTests) THEN t
    ELSE LET result == TestPerformanceMetric(PerformanceTests[i], randoms[i])
             pushed == [t EXCEPT !.testResults.performance = Append(@, result)]
         IN  TestPerformanceFrom(
                 IF result.withinThreshold THEN pushed
                 ELSE PushFinding(pushed, FALSE,
                                  [type |-> "performance", test |-> PerformanceTests[i].test]),
                 randoms, i + 1)

\* getTotalTests
GetTotalTests(t) ==
    Len(t.testResults.vscodeVersions) + Len(t.testResults.extensions)
    + Len(t.testResults.themeSwitching) + Len(t.testResults.semanticHighlighting)
    + Len(t.testResults.performance)

\* results.filter(keep).length
CountOf(results, Keep(_)) == Cardinality({i \in 1..Len(results) : Keep(results[i])})

\* getPassedTests
GetPassedTests(t) ==
    LET Compatible(r) == r.compatible
        Smooth(r) == r.smooth
        Supported(r) == r.supported
        Within(r) == r.withinThreshold
    IN  CountOf(t.testResults.vscodeVersions, Compatible)
        + CountOf(t.testResults.extensions, Compatible)
        + CountOf(t.testResults.themeSwitching, Smooth)
        + CountOf(t.testResults.semanticHighlighting, Supported)
        + CountOf(t.testResults.performance, Within)

\* the summary saveCompatibilityReport writes (without its successRate text)
CompatibilityReport(t) ==
    [totalTests |-> GetTotalTests(t), passedTests |-> GetPassedTests(t),
     issues |-> Len(t.issues), warnings |-> Len(t.warnings)]

\* the value runCompatibilityTests returns
CompatibilitySummary(t) ==
    [totalTests |-> GetTotalTests(t), passed |-> GetPassedTests(t),
     issues |-> Len(t.issues), warnings |-> Len(t.warnings)]

\* a method of the tester is entered by runCompatibilityTests at its place in
\* the run, or by a caller of the exported class while no run is under way
Entered(place) ==
    \/ tester.pc = place
    \/ tester.pc = "idle" /\ tester.calls < MaxTesterCalls

\* the tester t after a method: the run moves on to next, a direct call returns
Left(t, next) ==
    IF tester.pc = "idle" THEN [t EXCEPT !.calls = @ + 1, !.ret = Undefined]
    ELSE [t EXCEPT !.pc = next]

\* tester.runCompatibilityTests(), up to its first await
RunCompatibilityTests ==
    /\ tester.pc = "idle"
    /\ tester.calls < MaxTesterCalls
    /\ tester' = [tester EXCEPT !.pc = "versions", !.outcome = "none", !.calls = @ + 1]
    /\ UNCHANGED <<validatorVars, env, runner>>

\* testVSCodeVersionCompatibility()
TestVSCodeVersionCompatibility ==
    /\ Entered("versions")
    /\ tester' = Left(TestVSCodeVersionsFrom(tester, env, 1), "extensions")
    /\ UNCHANGED <<validatorVars, env, runner>>

\* what a caller passes to testExtensionCompatibility
ExtensionInputs == {Undefined, PopularExtensions[1], PopularExtensions[2], PopularExtensions[5]}

\* testExtensionCompatibility(extension); runCompatibilityTests passes no
\* argument, and an exception rejects the promise of the run
TestExtensionCompatibility(extension) ==
    /\ Entered("extensions")
    /\ tester.pc = "extensions" => extension = Undefined
    /\ LET r == CallTestExtensionCompatibility(tester, extension)
       IN  tester' =
              IF tester.pc = "idle" THEN [r.t EXCEPT !.calls = @ + 1, !.ret = r.ret]
              ELSE IF IsThrown(r.ret)
                   THEN [r.t EXCEPT !.pc = "idle", !.outcome = "rejected", !.ret = r.ret]
              ELSE [r.t EXCEPT !.pc = "switching"]
    /\ UNCHANGED <<validatorVars, env, runner>>

\* testThemeSwitchingScenarios()
TestThemeSwitchingScenarios ==
    /\ Entered("switching")
    /\ tester' = Left(TestThemeSwitchingFrom(tester, 1), "semantic")
    /\ UNCHANGED <<validatorVars, env, runner>>

\* testSemanticHighlighting()
TestSemanticHighlighting ==
    /\ Entered("semantic")
    /\ tester' = Left(TestSemanticHighlightingFrom(tester, env, 1), "performance")
    /\ UNCHANGED <<validatorVars, env, runner>>

\* testPerformanceImpact()
TestPerformanceImpact ==
    /\ Entered("performance")
    /\ \E randoms \in [1..Len(PerformanceTests) -> RandomSamples] :
          tester' = Left(TestPerformanceFrom(tester, randoms, 1), "report")
    /\ UNCHANGED <<validatorVars, env, runner>>

\* generateCompatibilityReport(); in a run, runCompatibilityTests then returns
GenerateCompatibilityReport ==
    /\ Entered("report")
    /\ tester' =
          IF tester.pc = "idle"
          THEN [tester EXCEPT !.report = CompatibilityReport(tester),
                              !.calls = @ + 1, !.ret = Undefined]
          ELSE [tester EXCEPT !.report = CompatibilityReport(tester), !.pc = "idle",
                              !.outcome = "returned", !.ret = CompatibilitySummary(tester)]
    /\ UNCHANGED <<validatorVars, env, runner>>

----------------------------------------------------------------------------
(* The comprehensive test runner (run-all-tests.js) *)

\* the keys of this.results that hold the result of a suite, in the order
\* runAllTests runs the suites
Suites == <<"syntaxHighlighting", "accessibility", "compatibility", "extended">>

\* JavaScript null as the result of a suite that has not run
JsNull == [null |-> TRUE]

\* this.config of a new ComprehensiveTestRunner
DefaultConfig ==
    [runSyntaxTests |-> TRUE, runAccessibilityTests |-> TRUE,
     runCompatibilityTests |-> TRUE, runExtendedTests |-> TRUE,
     generateReports |-> TRUE, verbose |-> FALSE]

\* the cases of the switch of parseArgs that set an option: the argument, the
\* key of options and the value
OptionCases ==
    << <<"--no-syntax", "runSyntaxTests", FALSE>>,
       <<"--no-accessibility", "runAccessibilityTests", FALSE>>,
       <<"--no-compatibility", "runCompatibilityTests", FALSE>>,
       <<"--no-extended", "runExtendedTests", FALSE>>,
       <<"--no-reports", "generateReports", FALSE>>,
       <<"--verbose", "verbose", TRUE>> >>

\* const options = {}
NoOptions == [key \in {} |-> FALSE]

\* options.key = value
SetOption(options, key, value) ==
    [k \in DOMAIN options \cup {key} |-> IF k = key THEN value ELSE options[k]]

\* Object.assign(target, source)
ObjectAssign(target, source) ==
    [k \in DOMAIN target \cup DOMAIN source |->
        IF k \in DOMAIN source THEN source[k] ELSE target[k]]

RECURSIVE ParseArgsFrom(_, _, _)
\* the for loop of parseArgs from args[i] on: --help prints the usage and ends
\* the process with code 0, an argument no case names is passed over
ParseArgsFrom(args, i, options) ==
    IF i > Len(args) THEN [help |-> FALSE, options |-> options]
    ELSE IF args[i] = "--help" THEN [help |-> TRUE, options |-> options]
    ELSE LET hits == {c \in 1..Len(OptionCases) : OptionCases[c][1] = args[i]}
         IN  IF hits = {} THEN ParseArgsFrom(args, i + 1, options)
             ELSE LET case == OptionCases[CHOOSE c \in hits : TRUE]
                  IN  ParseArgsFrom(args, i + 1, SetOption(options, case[2], case[3]))

\* parseArgs with a switch that has no case for --no-extended
ParseArgsWithoutExtended(args) ==
    ParseArgsFrom(SelectSeq(args, LAMBDA arg : arg # "--no-extended"), 1, NoOptions)

\* parseArgs() over args = process.argv.slice(2)
ParseArgs(args) == ParseArgsFrom(args, 1, NoOptions)

\* the files checkThemeFiles and checkTestFiles look for
RequiredThemeFiles == {"package.json", "themes/dream-purple-color-theme.json"}

RequiredTestFiles ==
    {"test-files/javascript-test.js", "test-files/typescript-test.ts",
     "test-files/python-test.py", "test-files/html-css-test.html",
     "test-files/json-test.json"}

\* the machine the runner runs on: the major version of Node.js, the files
\* that do not exist, and whether the test-files directory can be written
Host(nodeMajor, missing, writable) ==
    [nodeMajor |-> nodeMajor, missing |-> missing, writable |-> writable]

DefaultHost == Host(18, {}, TRUE)

HostInputs ==
    {Host(n, m, w) : n \in {12, 14, 18},
                     m \in {{}, {"package.json"}, {"test-files/json-test.json"}},
                     w \in BOOLEAN}

CheckNodeVersion(h) == h.nodeMajor >= 14

CheckThemeFiles(h) == RequiredThemeFiles \cap h.missing = {}

CheckTestFiles(h) == RequiredTestFiles \cap h.missing = {}

\* require('fs') and require('path') succeeded when the module was loaded
CheckDependencies(h) == TRUE

\* results.map(r => r.passed) of validateTestEnvironment
EnvironmentChecks(h) ==
    <<CheckNodeVersion(h), CheckThemeFiles(h), CheckTestFiles(h), CheckDependencies(h)>>

\* a new ComprehensiveTestRunner in a process started with argv on host; pc is
\* the place the process has reached, started counts the calls of each
\* run...Tests method and order lists them as they were made, printed is the category breakdown of the final report
\* and assessment its overall assessment,
\* artifacts the files generateArtifacts wrote, exit the code the process
\* ended with
NewRunner(argv, host) ==
    [argv |-> argv, host |-> host, pc |-> "main", config |-> DefaultConfig,
     results |-> [syntaxHighlighting |-> JsNull, accessibility |-> JsNull,
                  compatibility |-> JsNull, extended |-> JsNull],
     overall |-> [totalTests |-> 0, passedTests |-> 0, failedTests |-> 0,
                  warnings |-> 0, score |-> 0],
     started |-> [syntaxHighlighting |-> 0, accessibility |-> 0,
                  compatibility |-> 0, extended |-> 0],
     order |-> <<>>, printed |-> <<>>, assessment |-> "", artifacts |-> <<>>,
     exit |-> <<>>]

\* { error: error.message }
ErrorResult(message) == [error |-> message]

HasError(result) == "error" \in DOMAIN result

\* result && !result.error
Succeeded(result) == result # JsNull /\ ~HasError(result)

\* await tester.runCompatibilityTests() on a new ThemeCompatibilityTester: the
\* value the run resolves to, or what it rejects with
CompatibilityRun(e, randoms) ==
    LET versions == TestVSCodeVersionsFrom(NewTester, e, 1)
        extensions == CallTestExtensionCompatibility(versions, Undefined)
    IN  IF IsThrown(extensions.ret) THEN extensions.ret
        ELSE CompatibilitySummary(
                 TestPerformanceFrom(
                     TestSemanticHighlightingFrom(
                         TestThemeSwitchingFrom(extensions.t, 1), e, 1),
                     randoms, 1))

\* testSuite.results.overall after ThemeTestSuite.runAllTests, which catches
\* every error of its tests: passed, failed, warnings
SuiteOverallInputs == {<<0, 0, 0>>, <<12, 0, 1>>, <<9, 2, 0>>}

\* calculateAccessibilityScore over the lengths of the three lists: a pass
\* weighs 1, a warning 0.5, a violation 0
CalculateAccessibilityScore(violationCount, warningCount, passCount) ==
    LET totalChecks == violationCount + warningCount + passCount
    IN  IF totalChecks = 0 THEN 0
        ELSE (200 * passCount + 100 * warningCount + totalChecks) \div (2 * totalChecks)

\* the value validateAccessibility resolves to
AccessibilityResult(violationCount, warningCount, passCount) ==
    [score |-> CalculateAccessibilityScore(violationCount, warningCount, passCount),
     violations |-> violationCount, warnings |-> warningCount, passes |-> passCount]

\* what validateAccessibility resolves to
AccessibilityInputs == {AccessibilityResult(0, 0, 9), AccessibilityResult(1, 2, 7)}

\* Math.round((passedTests / totalTests) * 100), halves rounding up (a quotient
\* of doubles that should end in .5 can fall just below it and round down)
Score(passedTests, totalTests) == (200 * passedTests + totalTests) \div (2 * totalTests)

\* calculateOverallStatistics with the extended tests added to totalTests only
CalculateOverallStatisticsExtendedUncounted(results, overall) ==
    LET s == results.syntaxHighlighting
        a == results.accessibility
        c == results.compatibility
        x == results.extended
        none == <<0, 0, 0, 0>>
        syntax == IF Succeeded(s)
                  THEN <<s.passed + s.failed + s.warnings, s.passed, s.failed, s.warnings>>
                  ELSE none
        accessibility == IF Succeeded(a)
                         THEN <<a.passes + a.violations + a.warnings, a.passes,
                                a.violations, a.warnings>>
                         ELSE none
        compatibility == IF Succeeded(c)
                         THEN <<c.totalTests, c.passed, c.issues, c.warnings>>
                         ELSE none
        extended == IF Succeeded(x) THEN <<3, 0, 0, 0>> ELSE none
        Sum(i) == syntax[i] + accessibility[i] + compatibility[i] + extended[i]
    IN  [totalTests |-> Sum(1), passedTests |-> Sum(2), failedTests |-> Sum(3),
         warnings |-> Sum(4),
         score |-> IF Sum(1) > 0 THEN Score(Sum(2), Sum(1)) ELSE overall.score]

\* calculateOverallStatistics: a suite counts when its result is neither null
\* nor an error; overall.score is assigned only when there are tests
CalculateOverallStatistics(results, overall) ==
    LET s == results.syntaxHighlighting
        a == results.accessibility
        c == results.compatibility
        x == results.extended
        none == <<0, 0, 0, 0>>
        syntax == IF Succeeded(s)
                  THEN <<s.passed + s.failed + s.warnings, s.passed, s.failed, s.warnings>>
                  ELSE none
        accessibility == IF Succeeded(a)
                         THEN <<a.passes + a.violations + a.warnings, a.passes,
                                a.violations, a.warnings>>
                         ELSE none
        compatibility == IF Succeeded(c)
                         THEN <<c.totalTests, c.passed, c.issues, c.warnings>>
                         ELSE none
        extended == IF Succeeded(x) THEN <<3, 3, 0, 0>> ELSE none
        Sum(i) == syntax[i] + accessibility[i] + compatibility[i] + extended[i]
    IN  [totalTests |-> Sum(1), passedTests |-> Sum(2), failedTests |-> Sum(3),
         warnings |-> Sum(4),
         score |-> IF Sum(1) > 0 THEN Score(Sum(2), Sum(1)) ELSE overall.score]

\* printCategoryBreakdown: the word printed for each category
CategoryBreakdown(results) ==
    [k \in 1..Len(Suites) |->
        LET result == results[Suites[k]]
        IN  IF Succeeded(result) THEN "Passed"
            ELSE IF result # JsNull THEN "Failed"
            ELSE "Skipped"]

\* printOverallAssessment with every comparison strict
PrintOverallAssessmentStrict(score) ==
    IF score > 95 THEN "Excellent"
    ELSE IF score > 85 THEN "Great"
    ELSE IF score > 70 THEN "Good"
    ELSE IF score > 50 THEN "Fair"
    ELSE "Poor"

\* printOverallAssessment: the word its message starts with
PrintOverallAssessment(score) ==
    IF score >= 95 THEN "Excellent"
    ELSE IF score >= 85 THEN "Great"
    ELSE IF score >= 70 THEN "Good"
    ELSE IF score >= 50 THEN "Fair"
    ELSE "Poor"

\* the files generateArtifacts writes into test-results
ArtifactFiles == <<"comprehensive-results.json", "test-report.html", "test-summary.md">>

\* process.exit(code)
Exited(r, code) == [r EXCEPT !.pc = "exited", !.exit = <<code>>]

\* main: parseArgs(), new ComprehensiveTestRunner(), runAllTests(options) up to
\* its first await
Main ==
    /\ runner.pc = "main"
    /\ LET parsed == ParseArgs(runner.argv)
       IN  runner' =
              IF parsed.help THEN Exited(runner, 0)
              ELSE [runner EXCEPT !.pc = "validate",
                                  !.config = ObjectAssign(@, parsed.options)]
    /\ UNCHANGED <<validatorVars, env, tester>>

\* validateTestEnvironment that only prints the failed checks
ValidateTestEnvironmentLenient ==
    /\ runner.pc = "validate"
    /\ runner' = [runner EXCEPT !.pc = "syntax"]
    /\ UNCHANGED <<validatorVars, env, tester>>

\* await this.validateTestEnvironment(): with a failed check it throws, and
\* the catch of runAllTests ends the process with code 1
ValidateTestEnvironment ==
    /\ runner.pc = "validate"
    /\ LET results == EnvironmentChecks(runner.host)
           failures == {i \in 1..Len(results) : ~results[i]}
       IN  runner' =
              IF failures # {} THEN Exited(runner, 1)
              ELSE [runner EXCEPT !.pc = "syntax"]
    /\ UNCHANGED <<validatorVars, env, tester>>

\* if (this.config.runSyntaxTests) await this.runSyntaxHighlightingTests()
RunSyntaxHighlightingTests ==
    /\ runner.pc = "syntax"
    /\ \E overall \in SuiteOverallInputs :
          runner' =
             IF runner.config.runSyntaxTests
             THEN [runner EXCEPT !.pc = "accessibility",
                                 !.started.syntaxHighlighting = @ + 1,
                                 !.order = Append(@, "syntaxHighlighting"),
                                 !.results.syntaxHighlighting =
                                     [passed |-> overall[1], failed |-> overall[2],
                                      warnings |-> overall[3]]]
             ELSE [runner EXCEPT !.pc = "accessibility"]
    /\ UNCHANGED <<validatorVars, env, tester>>

\* if (this.config.runAccessibilityTests) await this.runAccessibilityTests();
\* validateAccessibility ends by writing accessibility-report.json, outside
\* any try of the validator
RunAccessibilityTests ==
    /\ runner.pc = "accessibility"
    /\ \E results \in AccessibilityInputs :
          runner' =
             IF runner.config.runAccessibilityTests
             THEN [runner EXCEPT !.pc = "compatibility",
                                 !.started.accessibility = @ + 1,
                                 !.order = Append(@, "accessibility"),
                                 !.results.accessibility =
                                     IF runner.host.writable THEN results
                                     ELSE ErrorResult("EACCES: permission denied")]
             ELSE [runner EXCEPT !.pc = "compatibility"]
    /\ UNCHANGED <<validatorVars, env, tester>>

\* runCompatibilityTests of the runner without its try/catch: a rejected run
\* reaches the catch of runAllTests, which ends the process with code 1
RunCompatibilityTestsUncaught ==
    /\ runner.pc = "compatibility"
    /\ \E randoms \in [1..Len(PerformanceTests) -> RandomSamples] :
          LET results == CompatibilityRun(env, randoms)
          IN  runner' =
                 IF runner.config.runCompatibilityTests /\ IsThrown(results)
                 THEN Exited([runner EXCEPT !.started.compatibility = @ + 1,
                                            !.order = Append(@, "compatibility")], 1)
                 ELSE IF runner.config.runCompatibilityTests
                 THEN [runner EXCEPT !.pc = "extended",
                                     !.started.compatibility = @ + 1,
                                     !.order = Append(@, "compatibility"),
                                     !.results.compatibility =
                                         IF IsThrown(results)
                                         THEN ErrorResult(results.message)
                                         ELSE results]
                 ELSE [runner EXCEPT !.pc = "extended"]
    /\ UNCHANGED <<validatorVars, env, tester>>

\* if (this.config.runCompatibilityTests) await this.runCompatibilityTests(),
\* the method of the runner
RunCompatibilityTestsOfRunner ==
    /\ runner.pc = "compatibility"
    /\ \E randoms \in [1..Len(PerformanceTests) -> RandomSamples] :
          LET results == CompatibilityRun(env, randoms)
          IN  runner' =
                 IF runner.config.runCompatibilityTests
                 THEN [runner EXCEPT !.pc = "extended",
                                     !.started.compatibility = @ + 1,
                                     !.order = Append(@, "compatibility"),
                                     !.results.compatibility =
                                         IF IsThrown(results)
                                         THEN ErrorResult(results.message)
                                         ELSE results]
                 ELSE [runner EXCEPT !.pc = "extended"]
    /\ UNCHANGED <<validatorVars, env, tester>>

\* if (this.config.runExtendedTests) await this.runExtendedTests(): the three
\* scenarios only print
RunExtendedTests ==
    /\ runner.pc = "extended"
    /\ runner' =
          IF runner.config.runExtendedTests
          THEN [runner EXCEPT !.pc = "report",
                              !.started.extended = @ + 1,
                              !.order = Append(@, "extended"),
                              !.results.extended =
                                  [multiFile |-> TRUE, performance |-> TRUE,
                                   edgeCases |-> TRUE]]
          ELSE [runner EXCEPT !.pc = "report"]
    /\ UNCHANGED <<validatorVars, env, tester>>

\* this.generateFinalReport()
GenerateFinalReport ==
    /\ runner.pc = "report"
    /\ LET overall == CalculateOverallStatistics(runner.results, runner.overall)
       IN  runner' = [runner EXCEPT !.pc = "artifacts",
                                    !.overall = overall,
                                    !.printed = CategoryBreakdown(runner.results),
                                    !.assessment = PrintOverallAssessment(overall.score)]
    /\ UNCHANGED <<validatorVars, env, tester>>

\* if (this.config.generateReports) await this.generateArtifacts(): a write
\* that fails throws, and the catch of runAllTests ends the process with code 1
GenerateArtifacts ==
    /\ runner.pc = "artifacts"
    /\ runner' =
          IF ~runner.config.generateReports THEN [runner EXCEPT !.pc = "then"]
          ELSE IF runner.host.writable
               THEN [runner EXCEPT !.pc = "then", !.artifacts = ArtifactFiles]
          ELSE Exited(runner, 1)
    /\ UNCHANGED <<validatorVars, env, tester>>

\* the then of main with a suite recorded with an error counted as a failure
ExitFailingOnErrors ==
    /\ runner.pc = "then"
    /\ runner' = Exited(runner,
                        IF \/ runner.overall.failedTests > 0
                           \/ \E k \in 1..Len(Suites) : HasError(runner.results[Suites[k]])
                        THEN 1 ELSE 0)
    /\ UNCHANGED <<validatorVars, env, tester>>

\* the then of main: process.exit(failedTests > 0 ? 1 : 0)
Exit ==
    /\ runner.pc = "then"
    /\ runner' = Exited(runner, IF runner.overall.failedTests > 0 THEN 1 ELSE 0)
    /\ UNCHANGED <<validatorVars, env, tester>>

----------------------------------------------------------------------------
(* The validator and the suite as a state machine *)

NoCall == [op |-> "none"]

Init ==
    /\ themeColors \in ThemeInputs
    /\ violations = <<>>
    /\ warnings = <<>>
    /\ passes = <<>>
    /\ suiteResults = <<>>
    /\ calls = 0
    /\ call = NoCall
    /\ env = DefaultEnv
    /\ tester = NewTester
    /\ runner = NewRunner(<<>>, DefaultHost)

Next ==
    \/ \E pair \in PairInputs : ValidateContrastPairCall(pair)
    \/ ValidateContrastRatios
    \/ \E k \in 1..Len(DeficiencyTypes), colorPairs \in ColorPairsInputs :
          ValidateColorBlindnessTypeCall(DeficiencyTypes[k], colorPairs)
    \/ ValidateColorBlindnessCompatibility
    \/ TestContrastRatios

Spec == Init /\ [][Next]_vars

----------------------------------------------------------------------------
(* The engine's functions, each applied to inputs drawn from bounded sets *)

Min(a, b) == IF a <= b THEN a ELSE b

\* two-digit channel texts: 0, 255, the two sides of the 0.03928 breakpoint, ...
ChannelList ==
    << <<"0", "0">>, <<"f", "f">>, <<"0", "a">>, <<"8", "0">>, <<"0", "B">>,
       <<"F", "4">>, <<"1", "a">> >>

ChannelSamples == {ChannelList[i] : i \in 1..Min(MaxChannelSamples, Len(ChannelList))}

DigitList == <<"0", "f", "8", "A", "3", "c", "1">>

DigitSamples == {DigitList[i] : i \in 1..Min(MaxChannelSamples, Len(DigitList))}

Hex6Inputs == {r \o g \o b : r \in ChannelSamples, g \in ChannelSamples, b \in ChannelSamples}

Hex3Inputs == {<<x, y, z>> : x \in DigitSamples, y \in DigitSamples, z \in DigitSamples}

Grey3Inputs == {<<x, x, x>> : x \in DigitSamples}

\* #xyz -> #xxyyzz, the optional # kept
Expand3(h) ==
    LET d == StripHash(h)
        e == <<d[1], d[1], d[2], d[2], d[3], d[3]>>
    IN  IF Head(h) = "#" THEN Hash(e) ELSE e

\* strings that are no colour
MalformedInputs ==
    { <<>>, <<"#">>, NotAColor, <<"z", "z", "z">>, <<"#", "g", "g", "g">>,
      <<"#", "z", "z", "z", "z", "z", "z">>, <<"1", "g", "2", "h", "3", "i">>,
      <<"f", "f">>, <<"#", "1", "2", "3", "4", "5">>, <<"#", "#", "f", "f", "f">>,
      <<"f", "f", "f", "f", "f", "f", "f">>,
      <<"0", "0", "0", "0", "0", "0", "x", "y">>,
      <<"f", "f", "f", "f", "f", "f", "f", "f", "f">> }

Rgba8Inputs == {g \o g \o g \o a : g \in ChannelSamples, a \in ChannelSamples}

\* what hexToRgb is applied to
ParseInputs ==
    Hex6Inputs \cup {Hash(h) : h \in Hex6Inputs} \cup Hex3Inputs \cup {Black, White}
    \cup {Hash(h) : h \in Hex3Inputs} \cup Rgba8Inputs \cup MalformedInputs

\* what the contrast functions are applied to
ColorInputs ==
    Hex6Inputs \cup {Hash(h) : h \in Grey3Inputs} \cup Grey3Inputs
    \cup {g \o g \o g \o <<"8", "0">> : g \in ChannelSamples}
    \cup {C_1a0d26, C_f4f1f4, C_ff6b35, Black, White}
    \cup MalformedInputs

\* the strings the specification calls colours: 3, 6 or 8 hexadecimal digits
\* after one optional leading #
IsHexColor(h) ==
    LET d == StripHash(h)
    IN  Len(d) \in {3, 6, 8} /\ \A i \in 1..Len(d) : IsHexDigit(d[i])

\* a Color of the data model: channels in 0..255
ValidRgb(rgb) ==
    /\ ~rgb.isNull
    /\ \A c \in {rgb.r, rgb.g, rgb.b} : IsNum(c) /\ c.v \in 0..255

RgbInputs == {ValidatorHexToRgb(h) : h \in Hex6Inputs \cup Hex3Inputs \cup {Black, White}}

SuiteRgbInputs == {SuiteHexToRgb(h) : h \in Hex6Inputs \cup {Black, White}}

\* ratios around every threshold, the extremes, and the non-numbers
RatioInputs ==
    {Num(t + d) : t \in {3000000, 4500000, 7000000}, d \in {-1, 0, 1}}
    \cup {Num(4499990), Num(0), Num(Scale), Num(21 * Scale), NaN}

\* requirement categories handed in: the four of the table and two it lacks
TypeInputs ==
    {"normalText", "largeText", "uiComponents", "graphicalObjects",
     "headingText", "normaltext"}

SuitePairInputs ==
    {SuitePair(bg, fg, type) :
        bg \in {C_1a0d26, C_ff6b35, <<"#", "f", "f", "f">>, NotAColor},
        fg \in {C_f4f1f4, C_1a0d26, <<"f", "f", "f", "f", "f", "f", "8", "0">>},
        type \in TypeInputs}

\* the observation of one application of a function of the engine
Called(op, args, ret) == [op |-> op, args |-> args, ret |-> ret]

CallValidatorHexToRgb ==
    /\ call = NoCall
    /\ \E h \in ParseInputs :
          call' = Called("validator.hexToRgb", <<h>>, ValidatorHexToRgb(h))
    /\ UNCHANGED <<themeColors, violations, warnings, passes, suiteResults, calls, env, tester, runner>>

CallSuiteHexToRgb ==
    /\ call = NoCall
    /\ \E h \in ParseInputs :
          call' = Called("suite.hexToRgb", <<h>>, SuiteHexToRgb(h))
    /\ UNCHANGED <<themeColors, violations, warnings, passes, suiteResults, calls, env, tester, runner>>

CallGetRelativeLuminance ==
    /\ call = NoCall
    /\ \E rgb \in RgbInputs :
          call' = Called("validator.getRelativeLuminance", <<rgb>>,
                         GetRelativeLuminance(rgb))
    /\ UNCHANGED <<themeColors, violations, warnings, passes, suiteResults, calls, env, tester, runner>>

CallSuiteGetRelativeLuminance ==
    /\ call = NoCall
    /\ \E rgb \in SuiteRgbInputs :
          call' = Called("suite.getRelativeLuminance", <<rgb>>,
                         SuiteGetRelativeLuminance(rgb))
    /\ UNCHANGED <<themeColors, violations, warnings, passes, suiteResults, calls, env, tester, runner>>

CallCalculateContrastRatio ==
    /\ call = NoCall
    /\ \E a \in ColorInputs, b \in ColorInputs :
          call' = Called("validator.calculateContrastRatio", <<a, b>>,
                         CalculateContrastRatio(a, b))
    /\ UNCHANGED <<themeColors, violations, warnings, passes, suiteResults, calls, env, tester, runner>>

CallGetContrastRatio ==
    /\ call = NoCall
    /\ \E a \in ColorInputs, b \in ColorInputs :
          call' = Called("suite.getContrastRatio", <<a, b>>, GetContrastRatio(a, b))
    /\ UNCHANGED <<themeColors, violations, warnings, passes, suiteResults, calls, env, tester, runner>>

CallContrastOutcome ==
    /\ call = NoCall
    /\ \E ratio \in RatioInputs, type \in TypeInputs :
          call' = Called("validator.classify", <<ratio, type>>,
                         ContrastOutcome(ratio, type))
    /\ UNCHANGED <<themeColors, violations, warnings, passes, suiteResults, calls, env, tester, runner>>

CallSuitePassed ==
    /\ call = NoCall
    /\ \E ratio \in RatioInputs, type \in TypeInputs :
          call' = Called("suite.classify", <<ratio, type>>, SuitePassed(ratio, type))
    /\ UNCHANGED <<themeColors, violations, warnings, passes, suiteResults, calls, env, tester, runner>>

CallSuiteContrastEntry ==
    /\ call = NoCall
    /\ \E pair \in SuitePairInputs :
          call' = Called("suite.contrastEntry", <<pair>>, SuiteContrastEntry(pair))
    /\ UNCHANGED <<themeColors, violations, warnings, passes, suiteResults, calls, env, tester, runner>>

\* colours handed to the colour-blindness estimate
CbColorInputs ==
    {C_ff6b35, C_c792ea, C_64ffda, C_ff8c42, C_ff6b6b, C_82b1ff, C_8b7a9b,
     Red, Green, Black, White, <<"#", "f", "f", "f">>,
     <<"f", "f", "6", "b", "3", "5", "8", "0">>, NotAColor,
     <<"#", "z", "z", "0", "0", "0", "0">>}

CallReductionRatio ==
    /\ call = NoCall
    /\ \E k \in 1..Len(DeficiencyTypes), a \in CbColorInputs, b \in CbColorInputs :
          call' = Called("validator.reductionRatio", <<DeficiencyTypes[k], a, b>>,
                         ReductionRatio(DeficiencyTypes[k], a, b))
    /\ UNCHANGED <<themeColors, violations, warnings, passes, suiteResults, calls, env, tester, runner>>

\* the most tests of one kind a suite result holds here
MaxCount == 2

\* what run...Tests can leave in this.results: null, an error, or the counts
\* of a completed suite (the compatibility run never completes, see
\* CompatibilityRun)
SyntaxResultInputs ==
    {JsNull, ErrorResult("syntax")}
    \cup {[passed |-> p, failed |-> f, warnings |-> w] :
             p \in 0..MaxCount, f \in 0..MaxCount, w \in 0..MaxCount}

AccessibilityResultInputs ==
    {JsNull, ErrorResult("EACCES: permission denied")}
    \cup {AccessibilityResult(v, w, p) :
             v \in 0..MaxCount, w \in 0..MaxCount, p \in 0..MaxCount}

CompatibilityResultInputs ==
    {JsNull}
    \cup {IF IsThrown(CompatibilityRun(e, [i \in 1..Len(PerformanceTests) |-> 0]))
          THEN ErrorResult(CompatibilityRun(e, [i \in 1..Len(PerformanceTests) |-> 0]).message)
          ELSE CompatibilityRun(e, [i \in 1..Len(PerformanceTests) |-> 0]) : e \in EnvInputs}

ExtendedResultInputs ==
    {JsNull, ErrorResult("extended"),
     [multiFile |-> TRUE, performance |-> TRUE, edgeCases |-> TRUE]}

CallCalculateOverallStatistics ==
    /\ call = NoCall
    /\ \E s \in SyntaxResultInputs, a \in AccessibilityResultInputs,
          c \in CompatibilityResultInputs, x \in ExtendedResultInputs :
          LET results == [syntaxHighlighting |-> s, accessibility |-> a,
                          compatibility |-> c, extended |-> x]
          IN  call' = Called("runner.calculateOverallStatistics", <<results>>,
                             CalculateOverallStatistics(results,
                                 NewRunner(<<>>, DefaultHost).overall))
    /\ UNCHANGED <<themeColors, violations, warnings, passes, suiteResults, calls, env, tester, runner>>

CallPrintOverallAssessment ==
    /\ call = NoCall
    /\ \E score \in 0..100 :
          call' = Called("runner.printOverallAssessment", <<score>>,
                         PrintOverallAssessment(score))
    /\ UNCHANGED <<themeColors, violations, warnings, passes, suiteResults, calls, env, tester, runner>>

InitEngine ==
    /\ themeColors = DefaultThemeColors
    /\ violations = <<>>
    /\ warnings = <<>>
    /\ passes = <<>>
    /\ suiteResults = <<>>
    /\ calls = 0
    /\ call = NoCall
    /\ env = DefaultEnv
    /\ tester = NewTester
    /\ runner = NewRunner(<<>>, DefaultHost)

NextEngine ==
    \/ CallValidatorHexToRgb
    \/ CallSuiteHexToRgb
    \/ CallGetRelativeLuminance
    \/ CallSuiteGetRelativeLuminance
    \/ CallCalculateContrastRatio
    \/ CallGetContrastRatio
    \/ CallContrastOutcome
    \/ CallSuitePassed
    \/ CallSuiteContrastEntry
    \/ CallReductionRatio
    \/ CallCalculateOverallStatistics
    \/ CallPrintOverallAssessment

SpecEngine == InitEngine /\ [][NextEngine]_vars

----------------------------------------------------------------------------
(* The compatibility tester as a state machine *)

InitCompat ==
    /\ themeColors = DefaultThemeColors
    /\ violations = <<>>
    /\ warnings = <<>>
    /\ passes = <<>>
    /\ suiteResults = <<>>
    /\ calls = 0
    /\ call = NoCall
    /\ env \in EnvInputs
    /\ tester = NewTester
    /\ runner = NewRunner(<<>>, DefaultHost)

NextCompat ==
    \/ RunCompatibilityTests
    \/ TestVSCodeVersionCompatibility
    \/ \E extension \in ExtensionInputs : TestExtensionCompatibility(extension)
    \/ TestThemeSwitchingScenarios
    \/ TestSemanticHighlighting
    \/ TestPerformanceImpact
    \/ GenerateCompatibilityReport

SpecCompat == InitCompat /\ [][NextCompat]_vars

----------------------------------------------------------------------------
(* The runner as a state machine: one process from main to process.exit *)

\* process.argv.slice(2): every choice of the five --no- flags in the order of
\* the usage text, and some other command lines
ArgvInputs ==
    {SelectSeq(<<"--no-syntax", "--no-accessibility", "--no-compatibility",
                 "--no-extended", "--no-reports">>, LAMBDA arg : arg \in given) :
        given \in SUBSET {"--no-syntax", "--no-accessibility", "--no-compatibility",
                          "--no-extended", "--no-reports"}}
    \cup {<<"--verbose">>, <<"--help">>, <<"--no-syntax", "--help">>,
          <<"--no-extended", "--no-syntax", "--no-extended">>, <<"--fast">>}

InitRunner ==
    /\ themeColors = DefaultThemeColors
    /\ violations = <<>>
    /\ warnings = <<>>
    /\ passes = <<>>
    /\ suiteResults = <<>>
    /\ calls = 0
    /\ call = NoCall
    /\ env \in EnvInputs
    /\ tester = NewTester
    /\ runner \in {NewRunner(argv, host) : argv \in ArgvInputs, host \in HostInputs}

NextRunner ==
    \/ Main
    \/ ValidateTestEnvironment
    \/ RunSyntaxHighlightingTests
    \/ RunAccessibilityTests
    \/ RunCompatibilityTestsOfRunner
    \/ RunExtendedTests
    \/ GenerateFinalReport
    \/ GenerateArtifacts
    \/ Exit

SpecRunner == InitRunner /\ [][NextRunner]_vars

----------------------------------------------------------------------------
(* Contrast ratio: range, symmetry, identity, extremes *)

\* both arguments of the observed validator call are colours of the data model
ValidatorArgsValid ==
    /\ ValidRgb(ValidatorHexToRgb(call.args[1]))
    /\ ValidRgb(ValidatorHexToRgb(call.args[2]))

\* both arguments of the observed suite call are colours of the data model
SuiteArgsValid ==
    /\ ValidRgb(SuiteHexToRgb(call.args[1]))
    /\ ValidRgb(SuiteHexToRgb(call.args[2]))

RatioInRange(x) == IsNum(x) /\ Scale <= x.v /\ x.v <= 21 * Scale

C2_RatioSymmetric ==
    /\ (call.op = "validator.calculateContrastRatio" /\ ValidatorArgsValid)
          => call.ret = CalculateContrastRatio(call.args[2], call.args[1])
    /\ (call.op = "suite.getContrastRatio" /\ SuiteArgsValid)
          => call.ret = GetContrastRatio(call.args[2], call.args[1])

\* the suite's ratio of two valid colours of different luminance
C2_Witness ==
    /\ call.op = "suite.getContrastRatio"
    /\ SuiteArgsValid
    /\ call.args[1] # call.args[2]
    /\ call.ret.v > Scale

\* C3: for every valid colour c, contrastRatio(c,c) is exactly 1.0.
C3_RatioIdentity ==
    (/\ call.op = "validator.calculateContrastRatio"
     /\ ValidatorArgsValid
     /\ call.args[1] = call.args[2])
        => call.ret = Num(Scale)

\* a valid colour, neither black nor white, compared with itself
C3_Witness ==
    /\ call.op = "validator.calculateContrastRatio"
    /\ call.args = <<C_ff6b35, C_ff6b35>>
    /\ call.ret = Num(Scale)

\* C4: the contrast ratio of #000000 against #FFFFFF is exactly 21.0.
C4_BlackWhiteIs21 ==
    (/\ call.op = "validator.calculateContrastRatio"
     /\ call.args \in {<<Black, White>>, <<White, Black>>})
        => call.ret = Num(21 * Scale)

\* black against white has been computed
C4_Witness ==
    /\ call.op = "validator.calculateContrastRatio"
    /\ call.args = <<Black, White>>
    /\ IsNum(call.ret)

\* C5: relativeLuminance(#FFFFFF) is exactly 1.0 and relativeLuminance(#000000)
\* is exactly 0.0, in the validator and in the test suite.
C5_LuminanceExtremes ==
    /\ call.op = "validator.getRelativeLuminance" =>
          /\ call.args[1] = ValidatorHexToRgb(White) => call.ret = Num(Scale)
          /\ call.args[1] = ValidatorHexToRgb(Black) => call.ret = Num(0)
    /\ call.op = "suite.getRelativeLuminance" =>
          /\ call.args[1] = SuiteHexToRgb(White) => call.ret = Num(Scale)
          /\ call.args[1] = SuiteHexToRgb(Black) => call.ret = Num(0)

\* the suite's luminance of white has been computed
C5_Witness ==
    /\ call.op = "suite.getRelativeLuminance"
    /\ call.args[1] = SuiteHexToRgb(White)
    /\ call.ret = Num(Scale)

----------------------------------------------------------------------------
(* Classification against the thresholds *)

\* the four requirement categories
Categories == {"normalText", "largeText", "uiComponents", "graphicalObjects"}

\* the AA minimum the documentation states for a category, the table's otherwise
DocumentedAA(type) ==
    CASE type = "normalText" -> 4500000
      [] type = "uiComponents" -> 3000000
      [] OTHER -> WCAG_STANDARDS.AA[type]

\* C6: classification is inclusive at the threshold: in every category a ratio
\* equal to the AA minimum is not a violation and every ratio below it is; a
\* ratio equal to the AAA minimum passes AAA.  The AA minimum of normalText is
\* 4.5 and of uiComponents 3.0.
C6_ThresholdInclusive ==
    (/\ call.op = "validator.classify"
     /\ call.args[2] \in Categories
     /\ IsNum(call.args[1]))
        => /\ (call.ret = "violations") <=> (call.args[1].v < DocumentedAA(call.args[2]))
           /\ (call.ret = "passes") <=> (call.args[1].v >= WCAG_STANDARDS.AAA[call.args[2]])

\* a ratio of exactly 4.5 classified as normalText is not a violation
C6_Witness ==
    /\ call.op = "validator.classify"
    /\ call.args = <<Num(4500000), "normalText">>
    /\ call.ret = "warnings"

----------------------------------------------------------------------------
(* Parsing of colour strings *)

HexToRgbOps == {"validator.hexToRgb", "suite.hexToRgb"}

\* C7: hexToRgb returns a colour if and only if its input, after one optional
\* leading #, is exactly 3, 6 or 8 hexadecimal digits; every other string is
\* rejected.
C7_ParsesExactlyHexColors ==
    call.op \in HexToRgbOps => (~call.ret.isNull <=> IsHexColor(call.args[1]))

\* three hexadecimal digits after one optional leading #
IsShortHex(h) ==
    LET d == StripHash(h)
    IN  Len(d) = 3 /\ \A i \in 1..3 : IsHexDigit(d[i])

\* C8: for every 3-digit hex colour #xyz, hexToRgb returns the same channels as
\* for its expanded 6-digit form #xxyyzz.
C8_ShortEqualsExpanded ==
    /\ (call.op = "validator.hexToRgb" /\ IsShortHex(call.args[1]))
          => call.ret = ValidatorHexToRgb(Expand3(call.args[1]))
    /\ (call.op = "suite.hexToRgb" /\ IsShortHex(call.args[1]))
          => call.ret = SuiteHexToRgb(Expand3(call.args[1]))

----------------------------------------------------------------------------
(* The records the validator and the suite keep *)

ContrastTypes == {"contrast-ratio", "contrast-ratio-aaa"}

\* the contrast records of the three lists of the validator
ContrastRecords ==
    {r \in {violations[i] : i \in 1..Len(violations)}
           \cup {warnings[i] : i \in 1..Len(warnings)}
           \cup {passes[i] : i \in 1..Len(passes)} : r.type \in ContrastTypes}

\* the entries of the results testContrastRatios returned
SuiteEntries ==
    {suiteResults[k].results[i] : k \in 1..Len(suiteResults), i \in 1..Len(TestPairs)}

\* C9: every contrast record of violations, warnings and passes, and every entry
\* of the results of testContrastRatios, carries a ratio of at least 1.0,
\* whatever colour strings the pair holds.
C9_RecordedRatioAtLeastOne ==
    /\ \A r \in ContrastRecords : JsGe(r.ratio, Num(Scale))
    /\ \A e \in SuiteEntries : JsGe(e.ratio, Num(Scale))

\* C10: a pair whose requirement category is none of normalText, largeText,
\* uiComponents, graphicalObjects is never given a pass/fail outcome: no contrast
\* record is kept for it in any list.
C10_UnknownCategoryNotClassified ==
    \A r \in ContrastRecords : r.pairType \in Categories

----------------------------------------------------------------------------
(* The batch of validateContrastRatios *)

RecordCount == Len(violations) + Len(warnings) + Len(passes)

\* the records a step appended to the three lists
AddedRecords ==
    {violations'[i] : i \in (Len(violations) + 1)..Len(violations')}
    \cup {warnings'[i] : i \in (Len(warnings) + 1)..Len(warnings')}
    \cup {passes'[i] : i \in (Len(passes) + 1)..Len(passes')}

\* the listed pairs one of whose colours is missing in the theme
PairsMissingColor ==
    {i \in 1..Len(CriticalPairs) :
        Falsy(themeColors, CriticalPairs[i].bg) \/ Falsy(themeColors, CriticalPairs[i].fg)}

----------------------------------------------------------------------------
(* Rounding for display *)

\* the contrast records of a list
ContrastRecordsOf(list) == {list[i] : i \in {j \in 1..Len(list) : list[j].type \in ContrastTypes}}

\* C12: the outcome of a pair is computed from the unrounded ratio: a record is
\* in violations exactly when its unrounded ratio is below the AA minimum, in
\* warnings when it is below the AAA minimum only, in passes otherwise, and an
\* entry of testContrastRatios passes exactly when the unrounded ratio of its
\* colours reaches the requirement; the two-decimal display decides nothing.
C12_OutcomeFromUnroundedRatio ==
    /\ \A r \in ContrastRecordsOf(violations) :
          JsLt(r.ratio, Required("AA", r.pairType))
    /\ \A r \in ContrastRecordsOf(warnings) :
          ~JsLt(r.ratio, Required("AA", r.pairType))
             /\ JsLt(r.ratio, Required("AAA", r.pairType))
    /\ \A r \in ContrastRecordsOf(passes) :
          ~JsLt(r.ratio, Required("AA", r.pairType))
             /\ ~JsLt(r.ratio, Required("AAA", r.pairType))
    /\ \A e \in SuiteEntries :
          e.passed <=> JsGe(GetContrastRatio(e.background, e.foreground), e.required)

\* a normalText pair whose ratio is displayed as 4.50 and recorded as a violation
C12_Witness ==
    \E r \in ContrastRecordsOf(violations) :
       /\ r.pairType = "normalText"
       /\ r.shown = Num(4500000)
       /\ r.ratio.v < 4500000
       /\ r.ratio.v >= 4495000

----------------------------------------------------------------------------
(* Statelessness of the engine's operations *)

\* a step that classifies one pair or estimates colour-blindness separation
ClassificationStep ==
    \/ \E pair \in PairInputs : ValidateContrastPairCall(pair)
    \/ \E k \in 1..Len(DeficiencyTypes), colorPairs \in ColorPairsInputs :
          ValidateColorBlindnessTypeCall(DeficiencyTypes[k], colorPairs)

\* C13: every engine operation is a stateless pure function: classifying a pair
\* and estimating colour-blindness separation leave violations, warnings,
\* passes and themeColors of the validator unchanged, so repeating the operation
\* yields the same observable state.
C13_OperationsLeaveStateUnchanged ==
    [][ClassificationStep => UNCHANGED <<themeColors, violations, warnings, passes>>]_vars

----------------------------------------------------------------------------
(* Colour-blindness separation *)

\* C18: for every pair of valid colours and each of the three deficiency types
\* the separation ratio distance_after / distance_before is a number in
\* [0, infinity).
C18_SeparationRatioIsNumber ==
    (/\ call.op = "validator.reductionRatio"
     /\ ValidRgb(ValidatorHexToRgb(call.args[2]))
     /\ ValidRgb(ValidatorHexToRgb(call.args[3])))
        => IsNum(call.ret) /\ call.ret.v >= 0

----------------------------------------------------------------------------
(* The documented pairs of the theme *)

\* x lies within target +- 0.1
WithinTenth(x, target) == IsNum(x) /\ x.v >= target - 100000 /\ x.v <= target + 100000

RatioOps == {"validator.calculateContrastRatio", "suite.getContrastRatio"}

\* C14: for background #1a0d26 and foreground #f4f1f4 the computed contrast
\* ratio lies within 12.8 +- 0.1.
C14_EditorPairRatio ==
    (call.op \in RatioOps /\ call.args = <<C_1a0d26, C_f4f1f4>>)
        => WithinTenth(call.ret, 12800000)

\* the contrast records of normalText pairs with the given colour values
RecordsOfValues(list, bgValue, fgValue) ==
    {r \in ContrastRecordsOf(list) :
        /\ r.backgroundValue = bgValue
        /\ r.foregroundValue = fgValue
        /\ r.pairType = "normalText"}

\* C15: background #1a0d26 and foreground #f4f1f4 classified as normalText meet
\* AA (ratio >= 4.5) and AAA (ratio >= 7.0): the validator records the pair as a
\* pass and not as a warning or violation.
C15_EditorPairPasses ==
    /\ RecordsOfValues(violations, C_1a0d26, C_f4f1f4) = {}
    /\ RecordsOfValues(warnings, C_1a0d26, C_f4f1f4) = {}
    /\ \A r \in RecordsOfValues(passes, C_1a0d26, C_f4f1f4) :
          JsGe(r.ratio, Num(4500000)) /\ JsGe(r.ratio, Num(7000000))

\* the pair has been classified and recorded as a pass
C15_Witness ==
    \E r \in RecordsOfValues(passes, C_1a0d26, C_f4f1f4) : r.background = "editor.background"

\* C16: for background #1a0d26 and foreground #ff6b35 the computed contrast
\* ratio lies within 4.8 +- 0.1.
C16_AccentPairRatio ==
    (call.op \in RatioOps /\ call.args = <<C_1a0d26, C_ff6b35>>)
        => WithinTenth(call.ret, 4800000)

\* C17: background #1a0d26 and foreground #ff6b35 classified as normalText meet
\* AA (ratio >= 4.5) but not AAA (ratio < 7.0): the validator records the pair
\* as an AAA warning, neither as a violation nor as a pass.
C17_AccentPairMeetsAAOnly ==
    /\ RecordsOfValues(violations, C_1a0d26, C_ff6b35) = {}
    /\ RecordsOfValues(passes, C_1a0d26, C_ff6b35) = {}
    /\ \A r \in RecordsOfValues(warnings, C_1a0d26, C_ff6b35) :
          /\ r.type = "contrast-ratio-aaa"
          /\ JsGe(r.ratio, Num(4500000))
          /\ JsLt(r.ratio, Num(7000000))

\* the pair has been classified and recorded as an AAA warning
C17_Witness ==
    \E r \in RecordsOfValues(warnings, C_1a0d26, C_ff6b35) : r.foreground = "editor.foreground"

----------------------------------------------------------------------------
(* The run of the compatibility tester *)

\* C19: runCompatibilityTests runs to completion and records exactly one result
\* for each of the 10 extensions of its popular-extensions list, so that the
\* returned totalTests covers 5 VS Code versions, 10 extensions, 5 switching
\* scenarios, 5 semantic-highlighting languages and 4 performance metrics.
C19_RunRecordsEveryExtension ==
    (tester.calls = 1 /\ tester.outcome # "none") =>
        /\ tester.outcome = "returned"
        /\ Len(tester.testResults.extensions) = Len(PopularExtensions)
        /\ \A i \in 1..Len(PopularExtensions) :
              tester.testResults.extensions[i].id = PopularExtensions[i].id
        /\ tester.ret.totalTests = 5 + 10 + 5 + 5 + 4

----------------------------------------------------------------------------
(* The command-line flags of the runner *)

\* the flag of the usage text that skips each suite, in the order of Suites
SuiteFlags == <<"--no-syntax", "--no-accessibility", "--no-compatibility", "--no-extended">>

\* the argument is on the command line
Given(arg) == \E i \in 1..Len(runner.argv) : runner.argv[i] = arg

\* the process has ended, and it got as far as calling runAllTests
RunEnded == runner.pc = "exited" /\ ~Given("--help")

\* every check of the environment validation passes on this host
EnvironmentValid ==
    \A i \in 1..Len(EnvironmentChecks(runner.host)) : EnvironmentChecks(runner.host)[i]

\* A suite whose flag is given is never started, its result stays null and the
\* final report prints it as Skipped; a suite whose flag is not given is never
\* started twice and, in a run that ended in a case where expected holds, was
\* started exactly once.  Only --no-reports keeps the artifacts from being
\* written: without it a run that can write them writes them, and with it the
\* final report is printed all the same.
FlagsSelectSuites(expected) ==
    /\ \A k \in 1..Len(Suites) :
          IF Given(SuiteFlags[k])
          THEN /\ runner.started[Suites[k]] = 0
               /\ runner.results[Suites[k]] = JsNull
               /\ runner.printed # <<>> => runner.printed[k] = "Skipped"
          ELSE /\ runner.started[Suites[k]] <= 1
               /\ (RunEnded /\ expected) => runner.started[Suites[k]] = 1
    /\ Given("--no-reports") => runner.artifacts = <<>>
    /\ (RunEnded /\ expected) => runner.printed # <<>>
    /\ (RunEnded /\ expected /\ ~Given("--no-reports") /\ runner.host.writable)
          => runner.artifacts = ArtifactFiles

\* C20, as stated: for each of the flags --no-syntax, --no-accessibility,
\* --no-compatibility and --no-extended the suite is never started during
\* runAllTests and its result stays null (reported as Skipped), while every
\* suite whose flag is not given is started exactly once; --no-reports
\* suppresses only artifact generation.
C20_FlagsSelectSuites == FlagsSelectSuites(TRUE)

\* C20, amended: the same, the suites whose flag is not given being started
\* exactly once when the environment validation passes.
C20_FlagsSelectSuitesInValidEnvironment == FlagsSelectSuites(EnvironmentValid)

\* a run that ended in a valid environment with --no-syntax and --no-reports
\* given and the other suites started
C20_Witness ==
    /\ RunEnded
    /\ EnvironmentValid
    /\ Given("--no-syntax") /\ Given("--no-reports")
    /\ ~Given("--no-accessibility") /\ ~Given("--no-compatibility") /\ ~Given("--no-extended")
    /\ runner.started = [syntaxHighlighting |-> 0, accessibility |-> 1,
                         compatibility |-> 1, extended |-> 1]
    /\ runner.printed[1] = "Skipped"
    /\ runner.artifacts = <<>>

----------------------------------------------------------------------------
(* The overall score of the runner and its assessment *)

\* the bands of the README: 95-100 Excellent, 85-94 Great, 70-84 Good,
\* 50-69 Fair, below 50 Poor
DocumentedBands ==
    << [from |-> 95, to |-> 100, band |-> "Excellent"],
       [from |-> 85, to |-> 94, band |-> "Great"],
       [from |-> 70, to |-> 84, band |-> "Good"],
       [from |-> 50, to |-> 69, band |-> "Fair"],
       [from |-> 0, to |-> 49, band |-> "Poor"] >>

\* C21: the overall assessment maps every integer score in 0..100 to exactly
\* one band, the one the README documents for it, and the score of
\* calculateOverallStatistics lies in 0..100 and, when there are tests, is
\* passedTests / totalTests * 100 rounded to the nearest integer.
C21_ScoreBands ==
    /\ call.op = "runner.printOverallAssessment" =>
          LET score == call.args[1]
              bands == {k \in 1..Len(DocumentedBands) :
                          DocumentedBands[k].from <= score /\ score <= DocumentedBands[k].to}
          IN  /\ Cardinality(bands) = 1
              /\ \A k \in bands : call.ret = DocumentedBands[k].band
    /\ call.op = "runner.calculateOverallStatistics" =>
          /\ call.ret.score \in 0..100
          /\ call.ret.totalTests > 0 =>
                /\ 2 * (100 * call.ret.passedTests - call.ret.score * call.ret.totalTests)
                      <= call.ret.totalTests
                /\ 2 * (call.ret.score * call.ret.totalTests - 100 * call.ret.passedTests)
                      <= call.ret.totalTests

\* the score at the lower edge of a band
C21_Witness ==
    /\ call.op = "runner.printOverallAssessment"
    /\ call.args = <<85>>
    /\ call.ret = "Great"

----------------------------------------------------------------------------
(* The list that receives the record of a pair *)

ListNames == {"violations", "warnings", "passes"}

\* what a step that called validateContrastPair(pair) did to the three lists:
\* one list has one more record at its end, and the list is the one the claim
\* names for the colours and the ratio of the pair; the same pair with the
\* other critical flag lengthens the same list
RecordsIn(pair) ==
    LET before == Lists
        after == Lists'
        grown == {n \in ListNames : after[n] # before[n]}
        flipped == ValidateContrastPair(themeColors, before, [pair EXCEPT !.critical = ~@])
    IN  /\ Cardinality(grown) = 1
        /\ \A n \in grown :
              /\ Len(after[n]) = Len(before[n]) + 1
              /\ SubSeq(after[n], 1, Len(before[n])) = before[n]
              /\ LET record == after[n][Len(after[n])]
                 IN  IF Falsy(themeColors, pair.bg) \/ Falsy(themeColors, pair.fg)
                     THEN n = "warnings" /\ record.type = "missing-color"
                     ELSE /\ record.type # "missing-color"
                          /\ n = "violations" =>
                                JsLt(record.ratio, Required("AA", pair.type))
                          /\ n = "warnings" =>
                                /\ JsGe(record.ratio, Required("AA", pair.type))
                                /\ JsLt(record.ratio, Required("AAA", pair.type))
                          /\ n = "passes" =>
                                JsGe(record.ratio, Required("AAA", pair.type))
        /\ \A n \in ListNames : Len(flipped[n]) = Len(after[n])

\* C22: each call of validateContrastPair appends exactly one record to exactly
\* one of the three lists: warnings only when a colour is missing, violations
\* only when ratio < AA minimum, warnings only when AA minimum <= ratio < AAA
\* minimum, passes only when ratio >= AAA minimum; the critical flag never
\* changes which list receives the record.
C22_OneRecordInTheListOfItsRatio ==
    [][\A pair \in PairInputs : ValidateContrastPairCall(pair) => RecordsIn(pair)]_vars

----------------------------------------------------------------------------
(* The totals of the runner *)

\* C23: after calculateOverallStatistics, overall.totalTests equals
\* overall.passedTests + overall.failedTests + overall.warnings, for every
\* combination of suites that were skipped, completed or recorded with an error.
C23_TotalIsSumOfOutcomes ==
    call.op = "runner.calculateOverallStatistics" =>
        call.ret.totalTests
            = call.ret.passedTests + call.ret.failedTests + call.ret.warnings

\* the syntax suite completed with tests of each outcome, the accessibility
\* suite was skipped, the compatibility suite is recorded with an error and the
\* extended tests completed
C23_Witness ==
    /\ call.op = "runner.calculateOverallStatistics"
    /\ call.args[1].syntaxHighlighting = [passed |-> 2, failed |-> 1, warnings |-> 1]
    /\ call.args[1].accessibility = JsNull
    /\ HasError(call.args[1].compatibility)
    /\ Succeeded(call.args[1].extended)
    /\ call.ret.totalTests = 7
    /\ call.ret.passedTests = 5

----------------------------------------------------------------------------
(* A suite that throws *)

\* the run of the k-th suite throws or rejects on this host: validateAccessibility
\* when its report cannot be written, runCompatibilityTests of the tester
\* whenever CompatibilityRun is a thrown error
SuiteThrows(k) ==
    CASE Suites[k] = "accessibility" -> ~runner.host.writable
      [] Suites[k] = "compatibility" ->
             \E randoms \in [1..Len(PerformanceTests) -> RandomSamples] :
                 IsThrown(CompatibilityRun(env, randoms))
      [] OTHER -> FALSE

\* the suites the command line leaves enabled, in the fixed order
EnabledSuites == SelectSeq(Suites, LAMBDA suite :
                     \A k \in 1..Len(Suites) : Suites[k] = suite => ~Given(SuiteFlags[k]))

\* C24: if the run of an enabled suite throws or rejects, the runner records
\* {error} for that suite only, still starts every later enabled suite in the
\* fixed order syntax, accessibility, compatibility, extended, and still
\* generates the final report.
C24_SuiteErrorsAreIsolated ==
    /\ runner.order = SubSeq(EnabledSuites, 1, Len(runner.order))
    /\ \A k \in 1..Len(Suites) :
          (runner.started[Suites[k]] = 1 /\ SuiteThrows(k)) =>
              /\ HasError(runner.results[Suites[k]])
              /\ \A j \in 1..Len(Suites) :
                    HasError(runner.results[Suites[j]]) => SuiteThrows(j)
              /\ RunEnded =>
                    /\ runner.order = EnabledSuites
                    /\ \A j \in (k + 1)..Len(Suites) :
                          ~Given(SuiteFlags[j]) => runner.started[Suites[j]] = 1
                    /\ runner.printed # <<>>
                    /\ runner.printed[k] = "Failed"

\* a run that ended after the accessibility and the compatibility suite threw
\* and the extended tests completed
C24_Witness ==
    /\ RunEnded
    /\ runner.order = Suites
    /\ HasError(runner.results.accessibility)
    /\ HasError(runner.results.compatibility)
    /\ Succeeded(runner.results.syntaxHighlighting)
    /\ Succeeded(runner.results.extended)
    /\ runner.printed = <<"Passed", "Failed", "Failed", "Passed">>

----------------------------------------------------------------------------
(* The exit code *)

\* the process ended after runAllTests completed: the environment validation
\* passed and the artifacts were written or switched off
RunCompleted ==
    /\ RunEnded
    /\ EnvironmentValid
    /\ Given("--no-reports") \/ runner.artifacts = ArtifactFiles

\* a suite is recorded with an error and no completed suite reported a failure
CrashedWithoutFailure ==
    /\ \E k \in 1..Len(Suites) : HasError(runner.results[Suites[k]])
    /\ Succeeded(runner.results.syntaxHighlighting) =>
          runner.results.syntaxHighlighting.failed = 0
    /\ Succeeded(runner.results.accessibility) =>
          runner.results.accessibility.violations = 0
    /\ Succeeded(runner.results.compatibility) =>
          runner.results.compatibility.issues = 0

\* C25: when runAllTests completes without an environment failure, the exit
\* code is 1 if and only if overall.failedTests > 0; a suite recorded with
\* {error} contributes nothing to failedTests, so a run in which a suite crashed
\* but no completed suite reported a failure exits with code 0.
C25_ExitCodeFromFailedTests ==
    RunCompleted =>
        /\ runner.exit = <<1>> <=> runner.overall.failedTests > 0
        /\ runner.exit \in {<<0>>, <<1>>}
        /\ CrashedWithoutFailure =>
              runner.overall.failedTests = 0 /\ runner.exit = <<0>>

\* a completed run in which the accessibility and the compatibility suite
\* crashed and the syntax suite reported no failure
C25_Witness ==
    /\ RunCompleted
    /\ CrashedWithoutFailure
    /\ HasError(runner.results.accessibility)
    /\ HasError(runner.results.compatibility)
    /\ Succeeded(runner.results.syntaxHighlighting)
    /\ runner.results.syntaxHighlighting.passed > 0
    /\ runner.exit = <<0>>

----------------------------------------------------------------------------
(* Environment validation *)

\* no run...Tests method has been called
NoSuiteStarted ==
    /\ runner.order = <<>>
    /\ \A k \in 1..Len(Suites) :
          runner.started[Suites[k]] = 0 /\ runner.results[Suites[k]] = JsNull

\* C26: environment validation completes before any suite starts; if any of
\* its four checks fails, no suite is ever started, no final report or artifact
\* is generated, and the process exits with code 1.
C26_ValidationGuardsTheRun ==
    /\ runner.pc \in {"main", "validate"} => NoSuiteStarted
    /\ (~EnvironmentValid /\ ~Given("--help")) =>
          /\ NoSuiteStarted
          /\ runner.printed = <<>> /\ runner.assessment = ""
          /\ runner.artifacts = <<>>
          /\ runner.pc \in {"main", "validate", "exited"}
          /\ runner.pc = "exited" => runner.exit = <<1>>

\* a process without flags that ended on a host where a check fails
C26_Witness ==
    /\ runner.argv = <<>>
    /\ ~CheckNodeVersion(runner.host)
    /\ runner.pc = "exited"
    /\ runner.exit = <<1>>
    /\ NoSuiteStarted

----------------------------------------------------------------------------
(* The two contrast implementations *)

\* the categories TEST_CONFIG and WCAG_STANDARDS both hold
SharedCategories == {"normalText", "largeText", "uiComponents"}

\* C27: for every pair of hex colours of 6 digits, and of 3 and 8 digits too
\* (with or without a leading #), getContrastRatio of the test suite and
\* calculateContrastRatio of the validator return the same ratio, and the AA
\* thresholds they compare against agree for normalText, largeText and
\* uiComponents.
C27_ImplementationsAgree ==
    /\ (/\ call.op = "validator.calculateContrastRatio"
        /\ IsHexColor(call.args[1]) /\ IsHexColor(call.args[2]))
          => call.ret = GetContrastRatio(call.args[1], call.args[2])
    /\ (/\ call.op = "suite.getContrastRatio"
        /\ IsHexColor(call.args[1]) /\ IsHexColor(call.args[2]))
          => call.ret = CalculateContrastRatio(call.args[1], call.args[2])
    /\ \A type \in SharedCategories : Required("AA", type) = SuiteRequired(type)

====
